---- MODULE Spec2Model ----
(***************************************************************************)
(* Verification model of the assistant runtime (parlor / anteroom):        *)
(*   - McpManager          (src/parlor/services/mcp_manager.py)            *)
(*   - ApprovalManager     (src/anteroom/services/approvals.py)            *)
(*   - storage / db        (src/parlor/services/storage.py, db.py)         *)
(*   - EventBus            (src/anteroom/services/event_bus.py)            *)
(*   - chat event stream   (src/parlor/routers/chat.py, ai_service.py)     *)
(* Each component has its own specification (SpecMcp, SpecApproval, ...);  *)
(* the variables of the other components stay at their initial value.      *)
(***************************************************************************)
EXTENDS Integers, Sequences, FiniteSets, TLC

\* ------------------------------------------------------------------------
\* Program state
\* ------------------------------------------------------------------------
\* --- McpManager
VARIABLES
    mcp_sdk,          \* which parts of the MCP SDK import: "none", "core", "full"
                      \* ("unknown" until the first import is attempted)
    server_status,    \* _server_status[name]["status"] ("unset" = no entry)
    exit_stacks,      \* _exit_stacks, ordered dict as a sequence of [name, stack]
    sessions,         \* _sessions: name -> stack id owning the session, 0 = no entry
    server_tools,     \* _server_tools, ordered dict as a sequence of [name, tools]
    tool_to_server,   \* _tool_to_server ("none" = no entry)
    disabled,         \* _disabled
    stacks,           \* every AsyncExitStack created: [server, depth, closed]
    mcp_raised,       \* an exception escaped the last manager call
    startup_state,    \* "init", "running", "done", "skipped", "aborted"
    startup_idx,      \* number of configs startup has gone through
    env_outcome,      \* what the environment did to each provider's last attempt
    mcp_last,         \* the last manager call: [op, server, by]
    mcp_down,         \* shutdown() has run
    mcp_call,         \* the call_tool just made: [tool, args, outcome, server, session]
    shutdown_log      \* the exit stacks shutdown() closed, in the order it closed them

mcpVars == <<mcp_sdk, server_status, exit_stacks, sessions, server_tools,
             tool_to_server, disabled, stacks, mcp_raised, startup_state,
             startup_idx, env_outcome, mcp_last, mcp_down, mcp_call, shutdown_log>>

\* --- ApprovalManager
VARIABLES
    appr_pending,     \* keys of _pending
    appr_owner,       \* PendingApproval.owner of every id requested so far
    appr_created,     \* PendingApproval.created_at
    appr_fut,         \* PendingApproval.fut: "none", "pending", "true", "false", "cancelled"
    appr_next,        \* the next fresh id
    appr_now,         \* time.time()
    wait_pc,          \* where the wait(id) call stands: "idle", "parked", "finally", "returned"
    wait_deadline,    \* when the wait_for of a parked wait times out
    wait_ret,         \* what the last wait(id) returned: "none", "true", "false", "cancelled"
    appr_last,        \* the resolve call just made and what it returned (NoCall otherwise)
    appr_true         \* number of resolve calls per id that returned true

apprVars == <<appr_pending, appr_owner, appr_created, appr_fut, appr_next, appr_now,
              wait_pc, wait_deadline, wait_ret, appr_last, appr_true>>

\* --- Store
VARIABLES
    db_convs,         \* ids of the rows of conversations (committed)
    db_updated,       \* conversations.updated_at, as the number of times it was set
                      \* since the row was created
    db_messages,      \* rows of messages (committed): [id, conv, position, role]
    db_writer,        \* the process holding the database write lock ("none")
    msg_next,         \* the next fresh message id
    cm_pc,            \* per process, where its create_message stands
    cm_args,          \* per process, the row its create_message is inserting
    cm_result,        \* per process, how its last create_message ended: "none", "ok",
                      \* "locked" (OperationalError), "integrity" (IntegrityError)
    tool_calls,       \* rows of tool_calls by id: [status, output_json]
    tc_raised         \* the last tool-call operation raised

storeVars == <<db_convs, db_updated, db_messages, db_writer, msg_next, cm_pc, cm_args, cm_result,
               tool_calls, tc_raised>>

\* --- Store: attachments and conversation deletion
VARIABLES
    tc_message,       \* tool_calls.message_id by tool-call id (0 = no row)
    att_rows,         \* rows of attachments: [id, message]
    att_files,        \* files under <data_dir>/attachments: [conv, id]
    att_next,         \* the next fresh attachment id
    up_pc,            \* where the upload of a chat request stands: "idle", "read", "written"
    up_args,          \* the conversation and user message of that request, and the file id
    del_pc,           \* where delete_conversation stands: "idle", "removed"
    del_conv,         \* the conversation it is deleting
    deleted           \* conversations for which delete_conversation returned True

delVars == <<tc_message, att_rows, att_files, att_next, up_pc, up_args, del_pc, del_conv,
             deleted>>

\* --- EventBus
VARIABLES
    bus_subscribers,  \* _subscribers: channel -> set of queues
    bus_queue,        \* per queue, the events waiting in it
    bus_got,          \* per queue, the number of the last event its holder took, by origin
    bus_expected,     \* per queue, the local events published while it was subscribed
                      \* and not yet taken, in publish order
    bus_qnext,        \* the next queue subscribe creates
    bus_polling,      \* start_polling was called (_db_manager is set)
    last_seen_ids,    \* _last_seen_ids: database -> id of the last row read
    change_log,       \* per database, the rows of change_log: [id, process_id, channel, event]
    log_next,         \* per database, the id the next change_log row gets
    ev_next           \* the number of the next event published

busVars == <<bus_subscribers, bus_queue, bus_got, bus_expected, bus_qnext, bus_polling,
             last_seen_ids, change_log, log_next, ev_next>>

\* --- Chat turn
VARIABLES
    chat_pc,            \* where the turn stands
    cancel_event,       \* the turn's cancel signal is set
    chat_cut,           \* the stream of the current iteration was closed on cancel
    assistant_content,  \* the tokens accumulated in the current iteration
    tool_calls_pending, \* ids of the tool calls the stream announced
    chat_tc,            \* index of the tool call being dispatched
    ai_messages,        \* the message list sent with each completion request
    chat_events,        \* the events the turn has emitted
    chat_requests       \* completion requests opened in the turn

chatVars == <<chat_pc, cancel_event, chat_cut, assistant_content, tool_calls_pending,
              chat_tc, ai_messages, chat_events, chat_requests>>

\* --- ToolRegistry
VARIABLES
    tr_callback,      \* _confirm_callback is set
    tr_pc,            \* where the call_tool stands: "idle", "confirming"
    tr_call,          \* the dispatch just made: [name, command]
    tr_confirm,       \* what the callback answered for it: "none", "true", "false", "raised"
    tr_handled,       \* the handler was invoked for it
    tr_result,        \* what call_tool returned for it
    tr_dispatches     \* number of call_tool calls so far

trVars == <<tr_callback, tr_pc, tr_call, tr_confirm, tr_handled, tr_result, tr_dispatches>>

\* --- Chat submission (the request before its event stream)
VARIABLES
    sub_pc,           \* where the submission stands: "idle", "files", "accepted", "rejected"
    sub_files,        \* the files of the multipart form: [mime, size]
    sub_idx,          \* index of the file the loop is at
    sub_msg,          \* id of the user message the submission stored (0 = none)
    sub_made          \* ids of the attachments the submission saved

subVars == <<sub_pc, sub_files, sub_idx, sub_msg, sub_made>>

\* --- Destructive confirmation callback and the approvals endpoint
VARIABLES
    cb_pc,            \* where _confirm_destructive stands: "idle", "publishing", "waiting"
    cb_id,            \* the approval id it requested (0 = none yet)
    cb_published,     \* the events it has published, in order: [channel, approval_id]
    resp_last,        \* the last answer of POST /approvals/respond: [id, approved, body]
    resp_count        \* number of answers given

cbVars == <<cb_pc, cb_id, cb_published, resp_last, resp_count>>

\* --- Event-stream provider (the sse branch of _connect_one)
VARIABLES
    sse_last          \* the last connection attempt: [scheme, host, dns, opened, status]

sseVars == <<sse_last>>

\* --- the cancel-signal registry of the chat router
VARIABLES
    cancel_events,  \* _cancel_events: conversation id -> the signals registered (by turn)
    turn_pc,        \* per chat request: idle, accepted, response, running, ended, failed, abandoned
    turn_conv,      \* per chat request: the conversation it was made for
    turn_signal     \* per chat request: whether its cancel signal is set

regVars == <<cancel_events, turn_pc, turn_conv, turn_signal>>

\* --- the terminal session (repl.py _run_repl)
VARIABLES
    input_queue,      \* input_queue: the texts typed and not yet taken, oldest first
    msg_queue,        \* msg_queue of the running turn: follow-up messages for the engine
    repl_rows,        \* the message rows of the conversation, in position order
    repl_warned,      \* the commands warn_callback was called with, in order
    repl_cancel,      \* cancel_event of the running turn is set
    exit_flag,        \* exit_flag is set
    engine_messages,  \* ai_messages: the message list the engine sends to the completion service
    repl_pc,          \* _agent_runner: idle, stream (run_agent_loop is being iterated), exited
    repl_typed        \* the texts typed so far

replVars == <<input_queue, msg_queue, repl_rows, repl_warned, repl_cancel, exit_flag, engine_messages, repl_pc, repl_typed>>

vars == <<mcpVars, apprVars, storeVars, delVars, busVars, chatVars, trVars, subVars, cbVars, sseVars, regVars, replVars>>
\* what the operations of one component leave alone
nonMcpVars == <<apprVars, storeVars, delVars, busVars, chatVars, trVars, subVars, cbVars, sseVars, regVars, replVars>>
nonApprVars == <<mcpVars, storeVars, delVars, busVars, chatVars, trVars, subVars, cbVars, sseVars, regVars, replVars>>
nonStoreVars == <<mcpVars, apprVars, delVars, busVars, chatVars, trVars, subVars, cbVars, sseVars, regVars, replVars>>
nonBusVars == <<mcpVars, apprVars, storeVars, delVars, chatVars, trVars, subVars, cbVars, sseVars, regVars, replVars>>
nonChatVars == <<mcpVars, apprVars, storeVars, delVars, busVars, trVars, subVars, cbVars, sseVars, regVars, replVars>>
nonTrVars == <<mcpVars, apprVars, storeVars, delVars, busVars, chatVars, subVars, cbVars, sseVars, regVars, replVars>>
\* what a chat submission leaves alone besides the store and the attachments
nonSubVars == <<mcpVars, apprVars, busVars, chatVars, trVars, cbVars, sseVars, regVars, replVars>>
\* what the confirmation callback leaves alone besides the approval manager
nonCbVars == <<mcpVars, storeVars, delVars, busVars, chatVars, trVars, subVars, sseVars, regVars, replVars>>
nonSseVars == <<mcpVars, apprVars, storeVars, delVars, busVars, chatVars, trVars, subVars, cbVars, regVars, replVars>>
nonRegVars == <<mcpVars, apprVars, storeVars, delVars, busVars, chatVars, trVars, subVars, cbVars, sseVars, replVars>>
nonReplVars == <<mcpVars, apprVars, storeVars, delVars, busVars, chatVars, trVars, subVars, cbVars, sseVars, regVars>>
\* what deletion and uploads leave alone besides the store
nonDelVars == <<mcpVars, apprVars, busVars, chatVars, trVars, subVars, cbVars, sseVars, regVars, replVars>>

\* ------------------------------------------------------------------------
\* Generic helpers
\* ------------------------------------------------------------------------
Range(q) == {q[i] : i \in 1..Len(q)}

\* a pop that removes nothing
SeqKeep(q, n) == q

RECURSIVE SeqRemove(_, _)
\* q without the entries whose name is n (dict.pop on an ordered dict)
SeqRemove(q, n) ==
    IF q = <<>> THEN <<>>
    ELSE IF Head(q).name = n THEN SeqRemove(Tail(q), n)
         ELSE <<Head(q)>> \o SeqRemove(Tail(q), n)

HasKey(q, n) == \E i \in 1..Len(q) : q[i].name = n

\* ordered-dict assignment d[n] = e: an existing key keeps its place
DictPut(q, e) ==
    IF HasKey(q, e.name)
    THEN [i \in 1..Len(q) |-> IF q[i].name = e.name THEN e ELSE q[i]]
    ELSE Append(q, e)

\* ========================================================================
\* McpManager
\* ========================================================================
Servers == {"a", "b", "c"}
\* self._configs, in configuration order
ConfigOrder == <<"a", "b", "c">>
\* config.transport of each configured provider ("c" is misconfigured)
Transport == [s \in Servers |->
                 IF s = "a" THEN "stdio" ELSE IF s = "b" THEN "sse" ELSE "invalid"]
ToolNames == {"t1", "t2"}
\* what a provider may answer to list_tools
ToolLists == {<<>>, <<"t1">>, <<"t1", "t2">>}
\* the step of _connect_one at which the provider fails
FailSteps == {"validate", "transport", "session", "initialize", "list_tools"}
ConnectOutcomes == FailSteps \cup {"ok"}
\* list_tools answers only in an attempt that gets that far
ListToolsReplies(out) == IF out = "ok" THEN ToolLists ELSE {<<>>}
\* number of _connect_one calls explored (each creates one AsyncExitStack)
MaxAttempts == 4


\* the manager's fields as one value, so that calls compose
Mgr == [sdk |-> mcp_sdk, status |-> server_status, exit_stacks |-> exit_stacks,
        sessions |-> sessions, server_tools |-> server_tools,
        tool_to_server |-> tool_to_server, disabled |-> disabled,
        stacks |-> stacks, raised |-> mcp_raised]

SetMgr(m) ==
    /\ mcp_sdk' = m.sdk
    /\ server_status' = m.status
    /\ exit_stacks' = m.exit_stacks
    /\ sessions' = m.sessions
    /\ server_tools' = m.server_tools
    /\ tool_to_server' = m.tool_to_server
    /\ disabled' = m.disabled
    /\ stacks' = m.stacks
    /\ mcp_raised' = m.raised

\* a rebuild in which the first server advertising a name keeps it
RebuildFirstWins(st) ==
    [t \in ToolNames |->
        LET owners == {i \in 1..Len(st) : t \in Range(st[i].tools)}
        IN  IF owners = {} THEN "none"
            ELSE st[CHOOSE i \in owners : \A j \in owners : i <= j].name]

\* _rebuild_tool_map: later servers of _server_tools shadow earlier ones
RebuildToolMap(st) ==
    [t \in ToolNames |->
        LET owners == {i \in 1..Len(st) : t \in Range(st[i].tools)}
        IN  IF owners = {} THEN "none"
            ELSE st[CHOOSE i \in owners : \A j \in owners : j <= i].name]

\* stack.aclose(): every entered context is exited
CloseStack(st, id) == [st EXCEPT ![id].closed = TRUE]

\* a handler that cleans up and lets the exception escape
ConnectFailedReraise(m, name, id) ==
    [m EXCEPT !.stacks = CloseStack(@, id),
              !.raised = TRUE]

\* the except BaseException branch of _connect_one
ConnectFailed(m, name, id) ==
    [m EXCEPT !.stacks = CloseStack(@, id),
              !.status[name] = "error"]

\* _connect_one(config) with the provider failing at step out (or "ok")
\* and answering list_tools with tools
ConnectOne(m, name, out, tools) ==
    IF m.sdk = "none"
    THEN [m EXCEPT !.status[name] = "error"]
    ELSE
      LET id == Len(m.stacks) + 1
          m0 == [m EXCEPT !.stacks =
                     Append(@, [server |-> name, depth |-> 0, closed |-> FALSE])]
          entered(k) == [m0 EXCEPT !.stacks[id].depth = k]
          registered == [entered(2) EXCEPT
                            !.exit_stacks = DictPut(@, [name |-> name, stack |-> id]),
                            !.sessions[name] = id]
      IN  IF Transport[name] = "sse" /\ m.sdk = "core"
          THEN [m0 EXCEPT !.status[name] = "error"]
          ELSE IF Transport[name] \notin {"stdio", "sse"}
          THEN [m0 EXCEPT !.status[name] = "error"]
          ELSE CASE out \in {"validate", "transport"} -> ConnectFailed(m0, name, id)
                 [] out = "session" -> ConnectFailed(entered(1), name, id)
                 [] out = "initialize" -> ConnectFailed(entered(2), name, id)
                 [] out = "list_tools" -> ConnectFailed(registered, name, id)
                 [] OTHER ->
                      LET st == DictPut(registered.server_tools,
                                        [name |-> name, tools |-> tools])
                      IN  [registered EXCEPT
                              !.server_tools = st,
                              !.tool_to_server = RebuildToolMap(st),
                              !.status[name] = "connected"]

\* disconnect_server(name)
DisconnectServer(m, name) ==
    LET st == SeqRemove(m.server_tools, name)
        held == {i \in 1..Len(m.exit_stacks) : m.exit_stacks[i].name = name}
    IN  [m EXCEPT !.disabled = @ \cup {name},
                  !.sessions[name] = 0,
                  !.server_tools = st,
                  !.tool_to_server = RebuildToolMap(st),
                  !.exit_stacks = SeqRemove(@, name),
                  !.stacks = IF held = {} THEN @
                             ELSE CloseStack(@, m.exit_stacks[CHOOSE i \in held : TRUE].stack),
                  !.status[name] = "disconnected"]

\* connect_server(name) (reconnect_server is the same call)
ConnectServer(m, name, out, tools) ==
    LET m1 == IF m.sessions[name] # 0 THEN DisconnectServer(m, name) ELSE m
    IN  ConnectOne([m1 EXCEPT !.disabled = @ \ {name}], name, out, tools)

RECURSIVE CloseAll(_, _)
CloseAll(st, q) ==
    IF q = <<>> THEN st ELSE CloseAll(CloseStack(st, Head(q).stack), Tail(q))

\* a loop that ends at the first aclose that raises
ShutdownSweepAbort(q, failing) ==
    LET bad == {i \in 1..Len(q) : q[i].stack \in failing}
        n == IF bad = {} THEN Len(q) ELSE CHOOSE i \in bad : \A j \in bad : i <= j
    IN  [i \in 1..n |-> [stack |-> q[i].stack, raised |-> q[i].stack \in failing]]

\* shutdown(): "for name, stack in list(self._exit_stacks.items())" with the
\* exception of an aclose that raises logged and swallowed
ShutdownSweep(q, failing) ==
    [i \in 1..Len(q) |-> [stack |-> q[i].stack, raised |-> q[i].stack \in failing]]

\* shutdown()
Shutdown(m) ==
    [m EXCEPT !.stacks = CloseAll(@, m.exit_stacks),
              !.exit_stacks = <<>>,
              !.sessions = [s \in Servers |-> 0],
              !.server_tools = <<>>,
              !.tool_to_server = [t \in ToolNames |-> "none"]]

\* the characters of _SHELL_META_RE (the backquote is written out)
ShellMeta == {";", "&", "|", "backquote", "$", "(", ")", "{", "}", "!", "<", ">", "\n", "\r"}
\* argument values: a str (its characters), an int, or a list holding one str
StrValue(chars) == [type |-> "str", chars |-> chars]
IntValue == [type |-> "int", chars |-> <<>>]
ListValue(chars) == [type |-> "list", chars |-> chars]
\* the argument dicts a caller may pass, as their items in order
ArgMaps == {
    <<[key |-> "path", value |-> StrValue(<<"a", "b">>)]>>,
    <<[key |-> "path", value |-> StrValue(<<"a", ";", "b">>)]>>,
    <<[key |-> "n", value |-> IntValue], [key |-> "cmd", value |-> StrValue(<<"$", "x">>)]>>,
    <<[key |-> "items", value |-> ListValue(<<"a", ";", "b">>)]>> }
\* what the provider session does with a forwarded call
Replies == {"content", "result", "transport_error"}
NoToolCall == [tool |-> "none", args |-> <<>>, outcome |-> "none", server |-> "none",
               session |-> 0]

\* _SHELL_META_RE.search(value)
ShellMetaSearch(chars) == \E i \in 1..Len(chars) : chars[i] \in ShellMeta

\* a validation that accepts every argument dict
AcceptToolArgs(arguments) == TRUE

\* _validate_tool_args(arguments) returns without raising
ValidateToolArgs(arguments) ==
    \A i \in 1..Len(arguments) :
        ~(arguments[i].value.type = "str" /\ ShellMetaSearch(arguments[i].value.chars))

\* a lookup that falls back to the first configured provider
RouteToFirst(map, sess, tool) == ConfigOrder[1]

\* call_tool: the provider the tool name is routed to ("none": not found)
RouteOf(map, sess, tool) ==
    IF map[tool] = "none" THEN "none"
    ELSE IF sess[map[tool]] = 0 THEN "none" ELSE map[tool]

InitMcp ==
    /\ mcp_call = NoToolCall
    /\ shutdown_log = <<>>
    /\ mcp_sdk = "unknown"
    /\ server_status = [s \in Servers |-> "unset"]
    /\ exit_stacks = <<>>
    /\ sessions = [s \in Servers |-> 0]
    /\ server_tools = <<>>
    /\ tool_to_server = [t \in ToolNames |-> "none"]
    /\ disabled = {}
    /\ stacks = <<>>
    /\ mcp_raised = FALSE
    /\ startup_state = "init"
    /\ startup_idx = 0
    /\ env_outcome = [s \in Servers |-> "none"]
    /\ mcp_last = [op |-> "none", server |-> "none", by |-> "none"]
    /\ mcp_down = FALSE

\* startup(): the import check before the loop
StartupBegin ==
    /\ UNCHANGED nonMcpVars
    /\ startup_state = "init"
    /\ \E sdk \in {"none", "core", "full"} :
         /\ mcp_sdk' = sdk
         /\ startup_state' = IF sdk = "none" THEN "skipped" ELSE "running"
    /\ mcp_last' = [op |-> "startup", server |-> "none", by |-> "startup"]
    /\ mcp_call' = NoToolCall
    /\ UNCHANGED shutdown_log
    /\ UNCHANGED <<server_status, exit_stacks, sessions, server_tools,
                   tool_to_server, disabled, stacks, mcp_raised, startup_idx,
                   env_outcome, mcp_down>>

\* startup(): one round of "for name, config in self._configs.items()", the
\* provider's attempt ending in one of outs
StartupConnect(outs) ==
    /\ UNCHANGED nonMcpVars
    /\ startup_state = "running"
    /\ startup_idx < Len(ConfigOrder)
    /\ Len(stacks) < MaxAttempts
    /\ \E out \in outs : \E tools \in ListToolsReplies(out) :
         LET name == ConfigOrder[startup_idx + 1]
             m == ConnectOne(Mgr, name, out, tools)
         IN  /\ SetMgr(m)
             /\ env_outcome' = [env_outcome EXCEPT ![name] = out]
             /\ mcp_last' = [op |-> "connect_one", server |-> name, by |-> "startup"]
             /\ startup_idx' = startup_idx + 1
             /\ startup_state' = IF m.raised THEN "aborted"
                                 ELSE IF startup_idx + 1 = Len(ConfigOrder) THEN "done"
                                 ELSE "running"
    /\ mcp_call' = NoToolCall
    /\ UNCHANGED <<mcp_down, shutdown_log>>

Serving == startup_state \in {"done", "skipped", "aborted"} /\ ~mcp_down

\* an operator asks to connect or reconnect a provider, the attempt ending
\* in one of outs
DoConnectServer(outs) ==
    /\ UNCHANGED nonMcpVars
    /\ Serving
    /\ Len(stacks) < MaxAttempts
    /\ \E name \in Servers, out \in outs : \E tools \in ListToolsReplies(out) :
         /\ SetMgr(ConnectServer(Mgr, name, out, tools))
         /\ env_outcome' = [env_outcome EXCEPT ![name] = out]
         /\ mcp_last' = [op |-> "connect_one", server |-> name, by |-> "connect_server"]
    /\ mcp_call' = NoToolCall
    /\ UNCHANGED <<startup_state, startup_idx, mcp_down, shutdown_log>>

\* an operator asks to disconnect a provider
DoDisconnectServer ==
    /\ UNCHANGED nonMcpVars
    /\ Serving
    /\ \E name \in Servers :
         /\ SetMgr(DisconnectServer(Mgr, name))
         /\ mcp_last' = [op |-> "disconnect", server |-> name, by |-> "disconnect_server"]
    /\ mcp_call' = NoToolCall
    /\ UNCHANGED <<startup_state, startup_idx, env_outcome, mcp_down, shutdown_log>>

\* the session answers only a call that is forwarded to it
SessionReplies(tool, args) ==
    IF RouteOf(tool_to_server, sessions, tool) # "none" /\ ValidateToolArgs(args)
    THEN Replies ELSE {"none"}

\* the application stops; the aclose of the stacks in failing raises
DoShutdown ==
    /\ UNCHANGED nonMcpVars
    /\ Serving
    /\ \E failing \in SUBSET {exit_stacks[i].stack : i \in 1..Len(exit_stacks)} :
         shutdown_log' = ShutdownSweep(exit_stacks, failing)
    /\ SetMgr(Shutdown(Mgr))
    /\ mcp_last' = [op |-> "shutdown", server |-> "none", by |-> "shutdown"]
    /\ mcp_down' = TRUE
    /\ mcp_call' = NoToolCall
    /\ UNCHANGED <<startup_state, startup_idx, env_outcome>>

\* call_tool(tool_name, arguments), the session answering with reply
CallTool(tool, args, reply) ==
    LET server == RouteOf(tool_to_server, sessions, tool)
    IN  /\ UNCHANGED nonMcpVars
        /\ Serving
        /\ mcp_call' =
              IF server = "none"
              THEN [tool |-> tool, args |-> args, outcome |-> "not_found",
                    server |-> "none", session |-> 0]
              ELSE IF ~ValidateToolArgs(args)
              THEN [tool |-> tool, args |-> args, outcome |-> "invalid_args",
                    server |-> server, session |-> 0]
              ELSE [tool |-> tool, args |-> args, outcome |-> reply,
                    server |-> server, session |-> sessions[server]]
        /\ mcp_last' = [op |-> "call_tool", server |-> server, by |-> "call_tool"]
        /\ UNCHANGED <<mcp_sdk, server_status, exit_stacks, sessions, server_tools,
                       tool_to_server, disabled, stacks, mcp_raised, startup_state,
                       startup_idx, env_outcome, mcp_down, shutdown_log>>

NextMcp ==
    \/ StartupBegin
    \/ StartupConnect(ConnectOutcomes)
    \/ DoConnectServer(ConnectOutcomes)
    \/ DoDisconnectServer
    \/ DoShutdown

\* the manager serving tool calls, with providers that fail before or after
\* their session is registered, or connect
CallOutcomes == {"transport", "list_tools", "ok"}

NextMcpCall ==
    \/ StartupBegin
    \/ StartupConnect(CallOutcomes)
    \/ DoConnectServer(CallOutcomes)
    \/ DoDisconnectServer
    \/ DoShutdown
    \/ \E tool \in ToolNames, args \in ArgMaps :
          \E reply \in SessionReplies(tool, args) : CallTool(tool, args, reply)

\* ========================================================================
\* ApprovalManager
\* ========================================================================
\* the approval ids of one run (fresh tokens, handed out in this order)
ApprIds == {1, 2}
Owners == {"alice", "bob"}
\* how far the clock runs
MaxTime == 1
\* expire_after_s of the cleanup task and timeout_s of wait, in clock ticks
ExpireAfter == 0
WaitTimeout == 1


FutDone(f) == f \in {"true", "false", "cancelled"}
BoolStr(b) == IF b THEN "true" ELSE "false"
Called(op, id, owner, ret) == [op |-> op, id |-> id, owner |-> owner, ret |-> ret]
NoCall == Called("none", 0, "none", "none")

\* owner and created_at of the entries left in the map (a popped entry is gone)
OwnersOf(pending) == [i \in ApprIds |-> IF i \in pending THEN appr_owner[i] ELSE "none"]
CreatedOf(pending) == [i \in ApprIds |-> IF i \in pending THEN appr_created[i] ELSE 0]

\* a wait that reports a timeout as approval
TimeoutResultTrue == "true"
\* except asyncio.TimeoutError: return False
TimeoutResult == "false"
\* a finally block that leaves the entry in place
KeepPending(pending, id) == pending
\* self._pending.pop(approval_id, None)
PopPending(pending, id) == pending \ {id}
\* a sweep that finds nothing to expire
NoExpiredIds == {}
\* the entries whose age exceeds expire_after_s
ExpiredIds == {i \in appr_pending : appr_now - appr_created[i] > ExpireAfter}

InitAppr ==
    /\ appr_pending = {}
    /\ appr_owner = [i \in ApprIds |-> "none"]
    /\ appr_created = [i \in ApprIds |-> 0]
    /\ appr_fut = [i \in ApprIds |-> "none"]
    /\ appr_next = 1
    /\ appr_now = 0
    /\ wait_pc = [i \in ApprIds |-> "idle"]
    /\ wait_deadline = [i \in ApprIds |-> 0]
    /\ wait_ret = [i \in ApprIds |-> "none"]
    /\ appr_last = NoCall
    /\ appr_true = [i \in ApprIds |-> 0]

\* time passes
Tick ==
    /\ UNCHANGED nonApprVars
    /\ appr_now < MaxTime
    /\ appr_now' = appr_now + 1
    /\ appr_last' = NoCall
    /\ UNCHANGED <<appr_pending, appr_owner, appr_created, appr_fut, appr_next,
                   wait_pc, wait_deadline, wait_ret, appr_true>>

\* request(message, owner=o)
Request(o) ==
    /\ UNCHANGED nonApprVars
    /\ appr_next \in ApprIds
    /\ appr_pending' = appr_pending \cup {appr_next}
    /\ appr_owner' = [appr_owner EXCEPT ![appr_next] = o]
    /\ appr_created' = [appr_created EXCEPT ![appr_next] = appr_now]
    /\ appr_fut' = [appr_fut EXCEPT ![appr_next] = "pending"]
    /\ appr_next' = appr_next + 1
    /\ appr_last' = NoCall
    /\ UNCHANGED <<appr_now, wait_pc, wait_deadline, wait_ret, appr_true>>

\* a resolve without the owner check
ResolveTakesEffectAnyOwner(id, o) ==
    /\ id \in appr_pending
    /\ ~FutDone(appr_fut[id])

\* a resolve without the fut.done() check
ResolveTakesEffectAgain(id, o) ==
    /\ id \in appr_pending
    /\ appr_owner[id] = o

\* the three early returns of resolve
ResolveTakesEffect(id, o) ==
    /\ id \in appr_pending
    /\ appr_owner[id] = o
    /\ ~FutDone(appr_fut[id])

\* resolve(id, approved, owner=o)
Resolve(id, approved, o) ==
    /\ UNCHANGED nonApprVars
    /\ id < appr_next
    /\ IF ResolveTakesEffect(id, o)
       THEN /\ appr_fut' = [appr_fut EXCEPT ![id] = BoolStr(approved)]
            /\ appr_true' = [appr_true EXCEPT ![id] = @ + 1]
            /\ appr_last' = Called("resolve", id, o, "true")
       ELSE /\ appr_last' = Called("resolve", id, o, "false")
            /\ UNCHANGED <<appr_fut, appr_true>>
    /\ UNCHANGED <<appr_pending, appr_owner, appr_created, appr_next, appr_now,
                   wait_pc, wait_deadline, wait_ret>>

\* wait(id): the lookup under the lock, then parking on wait_for
WaitStart(id) ==
    /\ UNCHANGED nonApprVars
    /\ id < appr_next
    /\ wait_pc[id] \in {"idle", "returned"}
    /\ IF id \in appr_pending
       THEN /\ wait_pc' = [wait_pc EXCEPT ![id] = "parked"]
            /\ wait_deadline' = [wait_deadline EXCEPT ![id] = appr_now + WaitTimeout]
            /\ wait_ret' = [wait_ret EXCEPT ![id] = "none"]
            /\ appr_last' = NoCall
       ELSE /\ wait_pc' = [wait_pc EXCEPT ![id] = "returned"]
            /\ wait_ret' = [wait_ret EXCEPT ![id] = "false"]
            /\ appr_last' = NoCall
            /\ UNCHANGED wait_deadline
    /\ UNCHANGED <<appr_pending, appr_owner, appr_created, appr_fut, appr_next, appr_now,
                   appr_true>>

\* wait(id): wait_for returns the future's result
WaitWake(id) ==
    /\ UNCHANGED nonApprVars
    /\ wait_pc[id] = "parked"
    /\ appr_fut[id] \in {"true", "false"}
    /\ wait_pc' = [wait_pc EXCEPT ![id] = "finally"]
    /\ wait_ret' = [wait_ret EXCEPT ![id] = appr_fut[id]]
    /\ appr_last' = NoCall
    /\ UNCHANGED <<appr_pending, appr_owner, appr_created, appr_fut, appr_next, appr_now,
                   wait_deadline, appr_true>>

\* wait(id): wait_for times out, cancels the future and raises TimeoutError
WaitTimesOut(id) ==
    /\ UNCHANGED nonApprVars
    /\ wait_pc[id] = "parked"
    /\ appr_fut[id] = "pending"
    /\ appr_now >= wait_deadline[id]
    /\ appr_fut' = [appr_fut EXCEPT ![id] = "cancelled"]
    /\ wait_pc' = [wait_pc EXCEPT ![id] = "finally"]
    /\ wait_ret' = [wait_ret EXCEPT ![id] = TimeoutResult]
    /\ appr_last' = NoCall
    /\ UNCHANGED <<appr_pending, appr_owner, appr_created, appr_next, appr_now,
                   wait_deadline, appr_true>>

\* the task parked in wait(id) is cancelled: wait_for hands out the result when
\* the future is done, else cancels the future and lets CancelledError through
WaitCancel(id) ==
    /\ UNCHANGED nonApprVars
    /\ wait_pc[id] = "parked"
    /\ IF appr_fut[id] \in {"true", "false"}
       THEN /\ wait_ret' = [wait_ret EXCEPT ![id] = appr_fut[id]]
            /\ UNCHANGED appr_fut
       ELSE /\ wait_ret' = [wait_ret EXCEPT ![id] = "cancelled"]
            /\ appr_fut' = [appr_fut EXCEPT ![id] = "cancelled"]
    /\ wait_pc' = [wait_pc EXCEPT ![id] = "finally"]
    /\ appr_last' = NoCall
    /\ UNCHANGED <<appr_pending, appr_owner, appr_created, appr_next, appr_now,
                   wait_deadline, appr_true>>

\* wait(id): the finally block pops the entry, then wait returns
WaitFinally(id) ==
    /\ UNCHANGED nonApprVars
    /\ wait_pc[id] = "finally"
    /\ appr_pending' = PopPending(appr_pending, id)
    /\ appr_owner' = OwnersOf(PopPending(appr_pending, id))
    /\ appr_created' = CreatedOf(PopPending(appr_pending, id))
    /\ wait_pc' = [wait_pc EXCEPT ![id] = "returned"]
    /\ appr_last' = NoCall
    /\ UNCHANGED <<appr_fut, appr_next, appr_now, wait_deadline, wait_ret, appr_true>>

\* one round of _cleanup_expired
Sweep ==
    LET expired == ExpiredIds
    IN  /\ UNCHANGED nonApprVars
        /\ appr_pending' = appr_pending \ expired
        /\ appr_owner' = OwnersOf(appr_pending \ expired)
        /\ appr_created' = CreatedOf(appr_pending \ expired)
        /\ appr_fut' = [i \in ApprIds |->
                          IF i \in expired /\ ~FutDone(appr_fut[i]) THEN "false"
                          ELSE appr_fut[i]]
        /\ appr_last' = NoCall
        /\ UNCHANGED <<appr_next, appr_now, wait_pc, wait_deadline, wait_ret, appr_true>>

NextAppr ==
    \/ Tick
    \/ \E o \in Owners : Request(o)
    \/ \E id \in ApprIds, v \in BOOLEAN, o \in Owners : Resolve(id, v, o)
    \/ \E id \in ApprIds : WaitStart(id)
    \/ \E id \in ApprIds : WaitWake(id)
    \/ \E id \in ApprIds : WaitTimesOut(id)
    \/ \E id \in ApprIds : WaitCancel(id)
    \/ \E id \in ApprIds : WaitFinally(id)
    \/ Sweep

\* ========================================================================
\* Store: messages and tool-call records (storage.py over db.py)
\* ========================================================================
\* processes that opened the same database file
Procs == {"p1", "p2"}
Convs == {"c1", "c2"}
\* roles a caller may pass; the CHECK of messages.role accepts AllowedRoles
Roles == {"user", "assistant", "tool"}
AllowedRoles == {"user", "assistant", "system"}
\* rows inserted in one run (message ids are fresh uuids, modelled as 1, 2, ...)
MaxMessages == 3
\* tool-call ids a caller may pass
ToolCallIds == {"k1", "k2"}
\* output_data a caller may pass: None or a structured value
Outputs == {"None", "o1"}
Statuses == {"pending", "success", "error"}
NoRow == [status |-> "absent", output_json |-> "NULL"]
\* no create_message in progress
NoArgs == [conv |-> "none", role |-> "none", position |-> 0, id |-> 0]

\* json.dumps(output_data) as stored in output_json
DumpOutput(out) == IF out = "None" THEN "null" ELSE out
\* list_tool_calls: json.loads(output) if output else None
LoadOutput(json) == IF json \in {"NULL", "null"} THEN "None" ELSE json

\* SELECT COALESCE(MAX(position), -1) + 1 FROM messages WHERE conversation_id = c
NextPosition(rows, c) ==
    LET ps == {r.position : r \in {x \in rows : x.conv = c}}
    IN  IF ps = {} THEN 0 ELSE (CHOOSE p \in ps : \A q \in ps : q <= p) + 1

InitStore ==
    /\ db_convs = {"c1"}
    /\ db_updated = [c \in Convs |-> 0]
    /\ db_messages = {}
    /\ db_writer = "none"
    /\ msg_next = 1
    /\ cm_pc = [p \in Procs |-> "idle"]
    /\ cm_args = [p \in Procs |-> NoArgs]
    /\ cm_result = [p \in Procs |-> "none"]
    /\ tool_calls = [k \in ToolCallIds |-> NoRow]
    /\ tc_raised = FALSE

\* the constraints of messages with PRAGMA foreign_keys=ON: the FOREIGN KEY
\* on conversation_id and the CHECK on role
IntegrityUnchecked(convs, row) == TRUE
IntegrityOk(convs, row) == row.conv \in convs /\ row.role \in AllowedRoles

\* create_message, up to the SELECT: the process-wide lock is taken and the
\* position is read from the committed rows (the sqlite3 module opens the
\* transaction only at the INSERT)
CmSelect(p, c, role) ==
    /\ UNCHANGED nonStoreVars
    /\ cm_pc[p] = "idle"
    /\ msg_next <= MaxMessages
    /\ cm_pc' = [cm_pc EXCEPT ![p] = "selected"]
    /\ cm_args' = [cm_args EXCEPT ![p] = [conv |-> c, role |-> role,
                                          position |-> NextPosition(db_messages, c),
                                          id |-> msg_next]]
    /\ msg_next' = msg_next + 1
    /\ cm_result' = [cm_result EXCEPT ![p] = "none"]
    /\ UNCHANGED <<db_convs, db_updated, db_messages, db_writer, tool_calls, tc_raised>>

\* create_message, the INSERT: it takes the database write lock, or fails
\* (database is locked, FOREIGN KEY, CHECK) and the transaction is rolled back
CmInsert(p) ==
    /\ UNCHANGED nonStoreVars
    /\ cm_pc[p] = "selected"
    /\ IF db_writer = "none" /\ IntegrityOk(db_convs, cm_args[p])
       THEN /\ db_writer' = p
            /\ cm_pc' = [cm_pc EXCEPT ![p] = "inserted"]
            /\ UNCHANGED <<cm_result, cm_args>>
       ELSE /\ cm_pc' = [cm_pc EXCEPT ![p] = "idle"]
            /\ cm_result' = [cm_result EXCEPT ![p] =
                                 IF db_writer # "none" THEN "locked" ELSE "integrity"]
            /\ cm_args' = [cm_args EXCEPT ![p] = NoArgs]
            /\ UNCHANGED db_writer
    /\ UNCHANGED <<db_convs, db_updated, db_messages, msg_next, tool_calls, tc_raised>>

\* create_message, the UPDATE of the conversation and the commit
CmCommit(p) ==
    /\ UNCHANGED nonStoreVars
    /\ cm_pc[p] = "inserted"
    /\ db_messages' = db_messages \cup
          {[id |-> cm_args[p].id, conv |-> cm_args[p].conv,
            position |-> cm_args[p].position, role |-> cm_args[p].role]}
    /\ db_updated' = [db_updated EXCEPT ![cm_args[p].conv] = @ + 1]
    /\ db_writer' = "none"
    /\ cm_pc' = [cm_pc EXCEPT ![p] = "idle"]
    /\ cm_result' = [cm_result EXCEPT ![p] = "ok"]
    /\ cm_args' = [cm_args EXCEPT ![p] = NoArgs]
    /\ UNCHANGED <<db_convs, msg_next, tool_calls, tc_raised>>

\* create_tool_call(..., tool_call_id = k): the id is the primary key
CreateToolCall(k) ==
    /\ UNCHANGED nonStoreVars
    /\ db_writer = "none"
    /\ IF tool_calls[k].status = "absent"
       THEN /\ tool_calls' = [tool_calls EXCEPT ![k] =
                                 [status |-> "pending", output_json |-> "NULL"]]
            /\ tc_raised' = FALSE
       ELSE /\ tc_raised' = TRUE
            /\ UNCHANGED tool_calls
    /\ UNCHANGED <<db_convs, db_updated, db_messages, db_writer, msg_next, cm_pc, cm_args, cm_result>>

\* update_tool_call(k, out, status): UPDATE ... WHERE id = k
UpdateToolCall(k, out, status) ==
    /\ UNCHANGED nonStoreVars
    /\ db_writer = "none"
    /\ tool_calls' = IF tool_calls[k].status = "absent" THEN tool_calls
                     ELSE [tool_calls EXCEPT ![k] =
                              [status |-> status, output_json |-> DumpOutput(out)]]
    /\ tc_raised' = FALSE
    /\ UNCHANGED <<db_convs, db_updated, db_messages, db_writer, msg_next, cm_pc, cm_args, cm_result>>

NextStore ==
    \/ \E p \in Procs, c \in Convs, role \in Roles : CmSelect(p, c, role)
    \/ \E p \in Procs : CmInsert(p)
    \/ \E p \in Procs : CmCommit(p)
    \/ \E k \in ToolCallIds : CreateToolCall(k)
    \/ \E k \in ToolCallIds, out \in Outputs, status \in Statuses : UpdateToolCall(k, out, status)

\* create_message alone, called by every process
NextMessages ==
    \/ \E p \in Procs, c \in Convs, role \in Roles : CmSelect(p, c, role)
    \/ \E p \in Procs : CmInsert(p)
    \/ \E p \in Procs : CmCommit(p)

\* ------------------------------------------------------------------------
\* Store: attachments and delete_conversation (storage.py, chat.py)
\* ------------------------------------------------------------------------
\* attachment files written in one run (ids are fresh uuids: 1, 2, ...)
MaxAttachments == 2
NoUpload == [conv |-> "none", message |-> 0, id |-> 0]
MessageIds(rows) == {r.id : r \in rows}

\* ON DELETE CASCADE from conversations to messages
CascadeMessages(rows, c) == {r \in rows : r.conv # c}

InitDel ==
    /\ tc_message = [k \in ToolCallIds |-> 0]
    /\ att_rows = {}
    /\ att_files = {}
    /\ att_next = 1
    /\ up_pc = "idle"
    /\ up_args = NoUpload
    /\ del_pc = "idle"
    /\ del_conv = "none"
    /\ deleted = {}

\* chat.py creates the tool-call row of message m (the assistant message it
\* has just stored): FOREIGN KEY (message_id) REFERENCES messages(id)
ChatCreateToolCall(k, m) ==
    /\ UNCHANGED nonDelVars
    /\ db_writer = "none"
    /\ m \in MessageIds(db_messages)
    /\ tool_calls[k].status = "absent"
    /\ tool_calls' = [tool_calls EXCEPT ![k] = [status |-> "pending", output_json |-> "NULL"]]
    /\ tc_message' = [tc_message EXCEPT ![k] = m]
    /\ tc_raised' = FALSE
    /\ UNCHANGED <<db_convs, db_updated, db_messages, db_writer, msg_next, cm_pc, cm_args, cm_result>>
    /\ UNCHANGED <<att_rows, att_files, att_next, up_pc, up_args, del_pc, del_conv, deleted>>

\* chat(): the request has stored its user message m of conversation c and
\* awaits f.read() of an uploaded file
UploadRead(m) ==
    /\ UNCHANGED nonDelVars
    /\ UNCHANGED storeVars
    /\ up_pc = "idle"
    /\ att_next <= MaxAttachments
    /\ \E r \in db_messages :
         /\ r.id = m
         /\ up_args' = [conv |-> r.conv, message |-> m, id |-> att_next]
    /\ att_next' = att_next + 1
    /\ up_pc' = "read"
    /\ UNCHANGED <<tc_message, att_rows, att_files, del_pc, del_conv, deleted>>

\* save_attachment: mkdir(parents=True, exist_ok=True) and write_bytes
UploadWrite ==
    /\ UNCHANGED nonDelVars
    /\ UNCHANGED storeVars
    /\ up_pc = "read"
    /\ att_files' = att_files \cup {[conv |-> up_args.conv, id |-> up_args.id]}
    /\ up_pc' = "written"
    /\ UNCHANGED <<tc_message, att_rows, att_next, up_args, del_pc, del_conv, deleted>>

\* save_attachment: INSERT INTO attachments and commit, or the INSERT fails
\* (FOREIGN KEY on message_id, database is locked) and the request ends
UploadInsert ==
    /\ UNCHANGED nonDelVars
    /\ UNCHANGED storeVars
    /\ up_pc = "written"
    /\ att_rows' = IF db_writer = "none" /\ up_args.message \in MessageIds(db_messages)
                   THEN att_rows \cup {[id |-> up_args.id, message |-> up_args.message]}
                   ELSE att_rows
    /\ up_pc' = "idle"
    /\ up_args' = NoUpload
    /\ UNCHANGED <<tc_message, att_files, att_next, del_pc, del_conv, deleted>>

\* delete_conversation(c): get_conversation, then shutil.rmtree of the
\* conversation's attachment directory
DeleteRemoveFiles(c) ==
    /\ UNCHANGED nonDelVars
    /\ UNCHANGED storeVars
    /\ del_pc = "idle"
    /\ c \in db_convs
    /\ att_files' = {f \in att_files : f.conv # c}
    /\ del_pc' = "removed"
    /\ del_conv' = c
    /\ UNCHANGED <<tc_message, att_rows, att_next, up_pc, up_args, deleted>>

\* delete_conversation(c): DELETE FROM conversations, commit, return True;
\* the rows of messages, tool_calls and attachments go by ON DELETE CASCADE.
\* With the write lock held by another connection the DELETE raises.
DeleteRow ==
    LET c == del_conv
        kept == CascadeMessages(db_messages, c)
    IN  /\ UNCHANGED nonDelVars
        /\ del_pc = "removed"
        /\ del_pc' = "idle"
        /\ del_conv' = "none"
        /\ IF db_writer = "none"
           THEN /\ db_convs' = db_convs \ {c}
                /\ db_updated' = [db_updated EXCEPT ![c] = 0]
                /\ db_messages' = kept
                /\ tool_calls' = [k \in ToolCallIds |->
                                     IF tc_message[k] # 0 /\ tc_message[k] \notin MessageIds(kept)
                                     THEN NoRow ELSE tool_calls[k]]
                /\ tc_message' = [k \in ToolCallIds |->
                                     IF tc_message[k] \in MessageIds(kept)
                                     THEN tc_message[k] ELSE 0]
                /\ att_rows' = {a \in att_rows : a.message \in MessageIds(kept)}
                /\ deleted' = deleted \cup {c}
           ELSE UNCHANGED <<db_convs, db_updated, db_messages, tool_calls, tc_message, att_rows,
                             deleted>>
        /\ UNCHANGED <<db_writer, msg_next, cm_pc, cm_args, cm_result, tc_raised>>
        /\ UNCHANGED <<att_files, att_next, up_pc, up_args>>

\* chat requests for one conversation, with uploads, and its deletion
NextDel ==
    \/ \E p \in Procs : CmSelect(p, "c1", "user")
    \/ \E p \in Procs : CmInsert(p)
    \/ \E p \in Procs : CmCommit(p)
    \/ \E k \in ToolCallIds, m \in 1..MaxMessages : ChatCreateToolCall(k, m)
    \/ \E m \in 1..MaxMessages : UploadRead(m)
    \/ UploadWrite
    \/ UploadInsert
    \/ \E c \in Convs : DeleteRemoveFiles(c)
    \/ DeleteRow

\* ========================================================================
\* EventBus (event_bus.py)
\* ========================================================================
\* the databases db_manager.list_databases() enumerates, in its order
Dbs == {"personal", "team"}
DbOrder == <<"personal", "team">>
\* one conversation channel and the global channel of the shared database
Channels == {"conversation:c1", "global:team"}
\* the queues subscribe hands out in one run
QueueIds == {1, 2}
\* events published in one run, by this process and by others
MaxEvents == 3
\* asyncio.Queue() is built without maxsize: 0 means no capacity limit
QueueMaxSize == 0
\* the origin of a change_log row: this process or another one
SelfPid == "self"
OtherPid == "other"

\* _channel_to_db_name: global:<name> -> <name>, a conversation channel -> personal
ChannelToDbName(channel) ==
    CASE channel = "global:personal" -> "personal"
      [] channel = "global:team" -> "team"
      [] OTHER -> "personal"

QueueFull(q) == QueueMaxSize > 0 /\ Len(q) >= QueueMaxSize
\* a delivery that does not keep arrival order
PutNowaitFront(q, ev) == IF QueueFull(q) THEN q ELSE <<ev>> \o q
\* queue.put_nowait(event), QueueFull swallowed by the caller
PutNowait(q, ev) == IF QueueFull(q) THEN q ELSE Append(q, ev)

\* SELECT MAX(id) FROM change_log, 0 when the table is empty
MaxLogId(log) ==
    IF log = <<>> THEN 0
    ELSE CHOOSE m \in {log[i].id : i \in 1..Len(log)} :
            \A i \in 1..Len(log) : log[i].id <= m

\* a seed that forgets the rows already in the table
SeedZero(log) == 0
\* start_polling: (row["max_id"] or 0)
SeedLastSeen(log) == MaxLogId(log)

\* a poller that replays its own rows too
SkipNoRow(r) == FALSE
\* if row["process_id"] == self._process_id: continue
SkipRow(r) == r.process_id = SelfPid

\* a SELECT that returns one row per cycle
NewRowsOne(log, last) ==
    LET rows == SelectSeq(log, LAMBDA r : r.id > last)
    IN  IF rows = <<>> THEN rows ELSE <<Head(rows)>>
\* SELECT ... FROM change_log WHERE id > ? ORDER BY id
NewRows(log, last) == SelectSeq(log, LAMBDA r : r.id > last)

\* a poller that forgets how far it has read
LastSeenStale(last, rows) == last
\* self._last_seen_ids[name] = row["id"], for every row of the cycle
LastSeenAfter(last, rows) == IF rows = <<>> THEN last ELSE rows[Len(rows)].id

\* the rows of one database in one poll cycle, in id order: rows of this process
\* are skipped, the others are put on every queue subscribed to their channel
RECURSIVE Deliver(_, _, _)
Deliver(queues, subs, rows) ==
    IF rows = <<>> THEN queues
    ELSE LET r == Head(rows)
             qs == [q \in QueueIds |->
                       IF q \in subs[r.channel] /\ ~SkipRow(r)
                       THEN PutNowait(queues[q], r.event) ELSE queues[q]]
         IN  Deliver(qs, subs, Tail(rows))

\* the loop of _poll_all_databases over the databases dbs
RECURSIVE PollDbs(_, _)
PollDbs(queues, dbs) ==
    IF dbs = <<>> THEN queues
    ELSE PollDbs(Deliver(queues, bus_subscribers,
                         NewRows(change_log[Head(dbs)], last_seen_ids[Head(dbs)])),
                 Tail(dbs))

\* INSERT INTO change_log by the process pid; the id is the table's next id
InsertRow(pid, ch, ev) ==
    LET db == ChannelToDbName(ch)
    IN  /\ change_log' = [change_log EXCEPT ![db] =
                             Append(@, [id |-> log_next[db], process_id |-> pid,
                                        channel |-> ch, event |-> ev])]
        /\ log_next' = [log_next EXCEPT ![db] = @ + 1]

InitBus ==
    /\ bus_subscribers = [ch \in Channels |-> {}]
    /\ bus_queue = [q \in QueueIds |-> <<>>]
    /\ bus_got = [q \in QueueIds |-> [p \in {SelfPid, OtherPid} |-> 0]]
    /\ bus_expected = [q \in QueueIds |-> <<>>]
    /\ bus_qnext = 1
    /\ bus_polling = FALSE
    /\ last_seen_ids = [d \in Dbs |-> 0]
    /\ change_log = [d \in Dbs |-> <<>>]
    /\ log_next = [d \in Dbs |-> 1]
    /\ ev_next = 1

\* subscribe(channel)
Subscribe(ch) ==
    /\ UNCHANGED nonBusVars
    /\ bus_qnext \in QueueIds
    /\ bus_subscribers' = [bus_subscribers EXCEPT ![ch] = @ \cup {bus_qnext}]
    /\ bus_qnext' = bus_qnext + 1
    /\ UNCHANGED <<bus_queue, bus_got, bus_expected, bus_polling, last_seen_ids,
                   change_log, log_next, ev_next>>

\* unsubscribe(channel, queue), called by the holder when it stops reading:
\* the queue leaves the registry and is dropped with what it still held
Unsubscribe(ch, q) ==
    /\ UNCHANGED nonBusVars
    /\ q < bus_qnext
    /\ q \in bus_subscribers[ch]
    /\ bus_subscribers' = [bus_subscribers EXCEPT ![ch] = @ \ {q}]
    /\ bus_queue' = [bus_queue EXCEPT ![q] = <<>>]
    /\ bus_expected' = [bus_expected EXCEPT ![q] = <<>>]
    /\ bus_got' = [bus_got EXCEPT ![q] = [p \in {SelfPid, OtherPid} |-> 0]]
    /\ UNCHANGED <<bus_qnext, bus_polling, last_seen_ids, change_log, log_next, ev_next>>

\* publish(channel, event): local delivery, then _persist_event
Publish(ch) ==
    /\ UNCHANGED nonBusVars
    /\ ev_next <= MaxEvents
    /\ LET ev == [n |-> ev_next, process_id |-> SelfPid]
       IN  /\ bus_queue' = [q \in QueueIds |->
                               IF q \in bus_subscribers[ch]
                               THEN PutNowait(bus_queue[q], ev) ELSE bus_queue[q]]
           /\ bus_expected' = [q \in QueueIds |->
                               IF q \in bus_subscribers[ch] /\ ~QueueFull(bus_queue[q])
                               THEN Append(bus_expected[q], ev) ELSE bus_expected[q]]
           /\ IF bus_polling
              THEN InsertRow(SelfPid, ch, ev)
              ELSE UNCHANGED <<change_log, log_next>>
    /\ ev_next' = ev_next + 1
    /\ UNCHANGED <<bus_subscribers, bus_got, bus_qnext, bus_polling, last_seen_ids>>

\* another process publishes: its row is committed to the shared change_log
RemotePublish(ch) ==
    /\ UNCHANGED nonBusVars
    /\ ev_next <= MaxEvents
    /\ InsertRow(OtherPid, ch, [n |-> ev_next, process_id |-> OtherPid])
    /\ ev_next' = ev_next + 1
    /\ UNCHANGED <<bus_subscribers, bus_queue, bus_got, bus_expected, bus_qnext,
                   bus_polling, last_seen_ids>>

\* start_polling(db_manager): last_seen is seeded with the current MAX(id)
StartPolling ==
    /\ UNCHANGED nonBusVars
    /\ ~bus_polling
    /\ bus_polling' = TRUE
    /\ last_seen_ids' = [d \in Dbs |-> SeedLastSeen(change_log[d])]
    /\ UNCHANGED <<bus_subscribers, bus_queue, bus_got, bus_expected, bus_qnext,
                   change_log, log_next, ev_next>>

\* one cycle of _poll_all_databases
PollAllDatabases ==
    /\ UNCHANGED nonBusVars
    /\ bus_polling
    /\ \E d \in Dbs : NewRows(change_log[d], last_seen_ids[d]) # <<>>
    /\ bus_queue' = PollDbs(bus_queue, DbOrder)
    /\ last_seen_ids' = [d \in Dbs |->
                            LastSeenAfter(last_seen_ids[d],
                                          NewRows(change_log[d], last_seen_ids[d]))]
    /\ UNCHANGED <<bus_subscribers, bus_got, bus_expected, bus_qnext, bus_polling,
                   change_log, log_next, ev_next>>

\* _cleanup_old_events, by this process or another: in every database the rows
\* created before the cutoff are deleted (events are numbered in creation order)
CleanupOldEvents(cutoff) ==
    /\ UNCHANGED nonBusVars
    /\ bus_polling
    /\ cutoff < ev_next
    /\ change_log' = [d \in Dbs |-> SelectSeq(change_log[d], LAMBDA r : r.event.n >= cutoff)]
    /\ change_log' # change_log
    /\ UNCHANGED <<bus_subscribers, bus_queue, bus_got, bus_expected, bus_qnext,
                   bus_polling, last_seen_ids, log_next, ev_next>>

\* the holder of queue q takes its next event (queue.get)
QueueGet(q) ==
    /\ UNCHANGED nonBusVars
    /\ q < bus_qnext
    /\ bus_queue[q] # <<>>
    /\ bus_got' = [bus_got EXCEPT ![q][Head(bus_queue[q]).process_id] = Head(bus_queue[q]).n]
    /\ bus_queue' = [bus_queue EXCEPT ![q] = Tail(@)]
    /\ bus_expected' = [bus_expected EXCEPT ![q] =
                           IF Head(bus_queue[q]).process_id = SelfPid /\ @ # <<>>
                           THEN Tail(@) ELSE @]
    /\ UNCHANGED <<bus_subscribers, bus_qnext, bus_polling, last_seen_ids,
                   change_log, log_next, ev_next>>

NextBus ==
    \/ \E ch \in Channels : Subscribe(ch)
    \/ \E ch \in Channels, q \in QueueIds : Unsubscribe(ch, q)
    \/ \E ch \in Channels : Publish(ch)
    \/ \E ch \in Channels : RemotePublish(ch)
    \/ StartPolling
    \/ PollAllDatabases
    \/ \E cutoff \in 2..MaxEvents : CleanupOldEvents(cutoff)
    \/ \E q \in QueueIds : QueueGet(q)

\* ========================================================================
\* Chat turn (chat.py event_generator over ai_service.py stream_chat)
\* ========================================================================
\* the conversation the turn belongs to
ChatConv == "c1"
\* a build that never dispatches
McpNeverConfigured == FALSE
\* app.py builds an McpManager when the configuration lists servers
McpConfigured == Len(ConfigOrder) > 0
\* the configured maximum of tool iterations (config.py max_tool_iterations)
MaxToolIterations == 2
\* completion requests explored in one turn
MaxRequests == 3
\* tokens streamed in one iteration
MaxTokens == 1
\* tool calls one completion may announce, by id, in index order
ToolCallLists == {<<"k1">>, <<"k2">>, <<"k1", "k2">>, <<"k1", "k1">>}
\* what the stream produces next: a chunk (content, finish_reason tool_calls,
\* finish_reason stop), an exception, or its end without finish_reason
StreamSteps == {"token", "finish_tools", "finish_stop", "raise", "exhausted"}
ChunkSteps == {"token", "finish_tools", "finish_stop"}

Ev(kind, id) == [event |-> kind, id |-> id, status |-> ""]
Msg(role, id) == [role |-> role, tool_call_id |-> id, content |-> ""]
\* what update_tool_call is given after call_tool: the result with status
\* success, or {"error": str(e)} with status error
CompletionDropsError(ok) ==
    [status |-> IF ok THEN "success" ELSE "error",
     output_json |-> DumpOutput(IF ok THEN "o1" ELSE "None")]
Completion(ok) ==
    [status |-> IF ok THEN "success" ELSE "error",
     output_json |-> DumpOutput(IF ok THEN "o1" ELSE "error")]
RECURSIVE StartEvents(_)
StartEvents(ids) ==
    IF ids = <<>> THEN <<>> ELSE <<Ev("tool_call_start", Head(ids))>> \o StartEvents(Tail(ids))

InitChat ==
    /\ chat_pc = "idle"
    /\ cancel_event = FALSE
    /\ chat_cut = FALSE
    /\ assistant_content = <<>>
    /\ tool_calls_pending = <<>>
    /\ chat_tc = 1
    /\ ai_messages = <<>>
    /\ chat_events = <<>>
    /\ chat_requests = 0

\* the storage write of the turn: create_message run to its commit
ChatCreateMessage(role) ==
    /\ db_messages' = db_messages \cup
          {[id |-> msg_next, conv |-> ChatConv,
            position |-> NextPosition(db_messages, ChatConv), role |-> role]}
    /\ db_updated' = [db_updated EXCEPT ![ChatConv] = @ + 1]
    /\ msg_next' = msg_next + 1

\* the turn ends by the handler of "except Exception" or by an error event
ChatError ==
    /\ chat_events' = Append(chat_events, Ev("error", ""))
    /\ chat_pc' = "ended"

\* chat(): the user message is stored, the cancel signal registered, the
\* history read
ChatAccept ==
    /\ UNCHANGED <<mcpVars, apprVars, busVars, delVars, trVars, subVars, cbVars, sseVars, regVars, replVars>>
    /\ chat_pc = "idle"
    /\ db_writer = "none"
    /\ ChatConv \in db_convs
    /\ ChatCreateMessage("user")
    /\ ai_messages' = <<Msg("user", "")>>
    /\ chat_pc' = "request"
    /\ UNCHANGED <<db_convs, db_writer, cm_pc, cm_args, cm_result, tool_calls, tc_raised>>
    /\ UNCHANGED <<cancel_event, chat_cut, assistant_content, tool_calls_pending, chat_tc,
                   chat_events, chat_requests>>

\* stop_generation(conversation): the registered cancel signals are set
StopGeneration ==
    /\ UNCHANGED nonChatVars
    /\ chat_pc \notin {"idle", "ended"}
    /\ ~cancel_event
    /\ cancel_event' = TRUE
    /\ UNCHANGED <<chat_pc, chat_cut, assistant_content, tool_calls_pending, chat_tc,
                   ai_messages, chat_events, chat_requests>>

\* top of "while True": stream_chat opens the completion request
OpenRequest ==
    /\ UNCHANGED nonChatVars
    /\ chat_pc = "request"
    /\ chat_requests < MaxRequests
    /\ chat_requests' = chat_requests + 1
    /\ tool_calls_pending' = <<>>
    /\ chat_pc' = "streaming"
    /\ UNCHANGED <<cancel_event, chat_cut, assistant_content, chat_tc, ai_messages,
                   chat_events>>

\* one step of the stream that stays inside the turn's own state
StreamStep(step) ==
    /\ UNCHANGED nonChatVars
    /\ chat_pc = "streaming"
    /\ step \in {"token", "finish_stop", "raise", "exhausted"}
    /\ IF step \in ChunkSteps /\ cancel_event
       THEN \* stream.close(); done; both loops are left
            /\ chat_cut' = TRUE
            /\ chat_pc' = "finalize"
            /\ UNCHANGED <<assistant_content, chat_events>>
       ELSE /\ UNCHANGED chat_cut
            /\ CASE step = "token" ->
                      /\ Len(assistant_content) < MaxTokens
                      /\ assistant_content' = Append(assistant_content, "tok")
                      /\ chat_events' = Append(chat_events, Ev("token", ""))
                      /\ UNCHANGED chat_pc
                 [] step = "raise" ->
                      /\ ChatError
                      /\ UNCHANGED assistant_content
                 [] OTHER ->
                      /\ chat_pc' = "finalize"
                      /\ UNCHANGED <<assistant_content, chat_events>>
    /\ UNCHANGED <<cancel_event, tool_calls_pending, chat_tc, ai_messages, chat_requests>>

\* the chunk with finish_reason tool_calls: a tool_call_start per announced
\* call, then the assistant message is stored and appended
StreamToolCalls(ids) ==
    /\ UNCHANGED <<mcpVars, apprVars, busVars, delVars, trVars, subVars, cbVars, sseVars, regVars, replVars>>
    /\ chat_pc = "streaming"
    /\ ~cancel_event
    /\ db_writer = "none"
    /\ chat_events' = chat_events \o StartEvents(ids)
    /\ tool_calls_pending' = ids
    /\ ChatCreateMessage("assistant")
    /\ ai_messages' = Append(ai_messages, Msg("assistant", ""))
    /\ chat_tc' = 1
    /\ chat_pc' = "dispatch"
    /\ UNCHANGED <<db_convs, db_writer, cm_pc, cm_args, cm_result, tool_calls, tc_raised>>
    /\ UNCHANGED <<cancel_event, chat_cut, assistant_content, chat_requests>>

\* "for tc in tool_calls_pending", up to the yield of tool_call_end:
\* create_tool_call, call_tool (it returns or raises), update_tool_call
DispatchCall(ok) ==
    /\ UNCHANGED <<mcpVars, apprVars, busVars, delVars, trVars, subVars, cbVars, sseVars, regVars, replVars>>
    /\ chat_pc = "dispatch"
    /\ chat_tc <= Len(tool_calls_pending)
    /\ db_writer = "none"
    /\ LET k == tool_calls_pending[chat_tc]
       IN  IF ~McpConfigured
           THEN /\ chat_tc' = chat_tc + 1
                /\ UNCHANGED <<chat_pc, chat_events, tool_calls, tc_raised>>
           ELSE IF tool_calls[k].status # "absent"
           THEN \* the primary key refuses the INSERT: "except Exception" of the turn
                /\ ChatError
                /\ tc_raised' = TRUE
                /\ UNCHANGED <<chat_tc, tool_calls>>
           ELSE /\ tool_calls' = [tool_calls EXCEPT ![k] = Completion(ok)]
                /\ tc_raised' = FALSE
                /\ chat_events' = Append(chat_events,
                                         [Ev("tool_call_end", k) EXCEPT
                                             !.status = Completion(ok).status])
                /\ chat_pc' = "resume"
                /\ UNCHANGED chat_tc
    /\ UNCHANGED <<db_convs, db_updated, db_messages, db_writer, msg_next, cm_pc, cm_args, cm_result>>
    /\ UNCHANGED <<cancel_event, chat_cut, assistant_content, tool_calls_pending,
                   ai_messages, chat_requests>>

\* after the yield of tool_call_end: the tool-role message is appended; its
\* content is the object that update_tool_call was given
DispatchResume ==
    /\ UNCHANGED nonChatVars
    /\ chat_pc = "resume"
    /\ LET k == tool_calls_pending[chat_tc]
       IN  ai_messages' = Append(ai_messages,
               [Msg("tool", k) EXCEPT !.content = tool_calls[k].output_json])
    /\ chat_tc' = chat_tc + 1
    /\ chat_pc' = "dispatch"
    /\ UNCHANGED <<cancel_event, chat_cut, assistant_content, tool_calls_pending,
                   chat_events, chat_requests>>

\* the for loop is exhausted: assistant_content = "" and back to "while True"
DispatchDone ==
    /\ UNCHANGED nonChatVars
    /\ chat_pc = "dispatch"
    /\ chat_tc > Len(tool_calls_pending)
    /\ assistant_content' = <<>>
    /\ chat_pc' = "request"
    /\ UNCHANGED <<cancel_event, chat_cut, tool_calls_pending, chat_tc, ai_messages,
                   chat_events, chat_requests>>

\* after the loop: the final assistant message is stored when there is text,
\* then done is emitted
Finalize ==
    /\ UNCHANGED <<mcpVars, apprVars, busVars, delVars, trVars, subVars, cbVars, sseVars, regVars, replVars>>
    /\ chat_pc = "finalize"
    /\ db_writer = "none"
    /\ IF assistant_content # <<>>
       THEN ChatCreateMessage("assistant")
       ELSE UNCHANGED <<db_messages, db_updated, msg_next>>
    /\ chat_events' = Append(chat_events, Ev("done", ""))
    /\ chat_pc' = "ended"
    /\ UNCHANGED <<db_convs, db_writer, cm_pc, cm_args, cm_result, tool_calls, tc_raised>>
    /\ UNCHANGED <<cancel_event, chat_cut, assistant_content, tool_calls_pending, chat_tc,
                   ai_messages, chat_requests>>

NextChat ==
    \/ ChatAccept
    \/ StopGeneration
    \/ OpenRequest
    \/ \E step \in StreamSteps : StreamStep(step)
    \/ \E ids \in ToolCallLists : StreamToolCalls(ids)
    \/ \E ok \in BOOLEAN : DispatchCall(ok)
    \/ DispatchResume
    \/ DispatchDone
    \/ Finalize

\* ========================================================================
\* Chat submission (chat.py chat() up to the cancel signal, save_attachment)
\* ========================================================================
MAX_FILES_PER_REQUEST == 10
MAX_ATTACHMENT_SIZE == 10485760
\* of the mime types a form may carry, those in ALLOWED_MIME_TYPES
AllowedMimeTypes == {"text/plain"}
\* an uploaded file: its content type and the length of its data
UploadFiles == [mime : {"text/plain", "application/x-sh"},
                size : {MAX_ATTACHMENT_SIZE, MAX_ATTACHMENT_SIZE + 1}]
\* the files of a form: none (also a JSON body), one or two of any kind, or
\* one more than the request may carry
FileLists ==
    {<<>>} \cup {<<f>> : f \in UploadFiles} \cup {<<f, g>> : f, g \in UploadFiles}
           \cup {[i \in 1..(MAX_FILES_PER_REQUEST + 1) |->
                     [mime |-> "text/plain", size |-> MAX_ATTACHMENT_SIZE]]}

\* save_attachment: the two checks made before anything is written
AttachmentAccepted(f) == f.size <= MAX_ATTACHMENT_SIZE /\ f.mime \in AllowedMimeTypes

InitSub ==
    /\ sub_pc = "idle"
    /\ sub_files = <<>>
    /\ sub_idx = 1
    /\ sub_msg = 0
    /\ sub_made = {}

\* chat(): _validate_uuid, get_conversation, the form and its file count,
\* then the user message is stored
ChatSubmit(id_ok, c, files) ==
    /\ UNCHANGED nonSubVars
    /\ sub_pc # "files"
    /\ db_writer = "none"
    /\ msg_next <= MaxMessages
    /\ sub_files' = files
    /\ sub_idx' = 1
    /\ sub_made' = {}
    /\ IF ~id_ok \/ c \notin db_convs \/ Len(files) > MAX_FILES_PER_REQUEST
       THEN \* HTTPException 400 or 404
            /\ sub_pc' = "rejected"
            /\ sub_msg' = 0
            /\ UNCHANGED <<db_messages, db_updated, msg_next>>
       ELSE /\ db_messages' = db_messages \cup
                  {[id |-> msg_next, conv |-> c,
                    position |-> NextPosition(db_messages, c), role |-> "user"]}
            /\ db_updated' = [db_updated EXCEPT ![c] = @ + 1]
            /\ msg_next' = msg_next + 1
            /\ sub_msg' = msg_next
            /\ sub_pc' = "files"
    /\ UNCHANGED <<db_convs, db_writer, cm_pc, cm_args, cm_result, tool_calls, tc_raised>>
    /\ UNCHANGED delVars

\* "for f in files": f.read() and save_attachment; its ValueError leaves
\* chat()
ChatSaveAttachment ==
    /\ UNCHANGED nonSubVars
    /\ UNCHANGED storeVars
    /\ sub_pc = "files"
    /\ sub_idx <= Len(sub_files)
    /\ db_writer = "none"
    /\ IF AttachmentAccepted(sub_files[sub_idx])
       THEN /\ att_next <= MaxAttachments
            /\ \E r \in db_messages :
                 /\ r.id = sub_msg
                 /\ att_files' = att_files \cup {[conv |-> r.conv, id |-> att_next]}
            /\ att_rows' = att_rows \cup {[id |-> att_next, message |-> sub_msg]}
            /\ att_next' = att_next + 1
            /\ sub_made' = sub_made \cup {att_next}
            /\ sub_idx' = sub_idx + 1
            /\ UNCHANGED sub_pc
       ELSE /\ sub_pc' = "rejected"
            /\ UNCHANGED <<att_files, att_rows, att_next, sub_made, sub_idx>>
    /\ UNCHANGED <<tc_message, up_pc, up_args, del_pc, del_conv, deleted>>
    /\ UNCHANGED <<sub_files, sub_msg>>

\* the loop is over: the cancel signal is registered and the response built
ChatSubmitted ==
    /\ UNCHANGED nonSubVars
    /\ UNCHANGED <<storeVars, delVars>>
    /\ sub_pc = "files"
    /\ sub_idx > Len(sub_files)
    /\ sub_pc' = "accepted"
    /\ UNCHANGED <<sub_files, sub_idx, sub_msg, sub_made>>

NextSub ==
    \/ \E id_ok \in BOOLEAN, c \in Convs, files \in FileLists : ChatSubmit(id_ok, c, files)
    \/ ChatSaveAttachment
    \/ ChatSubmitted

\* ========================================================================
\* ToolRegistry (anteroom/tools/__init__.py)
\* ========================================================================
\* the built-in tools registered, and a name that is not
RegisteredTools == {"bash", "read"}
CallNames == RegisteredTools \cup {"nope"}
\* a command is a sequence of tokens: words and whitespace characters
Whitespace == {" ", "\t", "\n"}
\* the commands a caller may pass as arguments["command"]
Commands == {
    <<"rm", " ", "x">>,
    <<"RM", "\t", "\n", "x">>,
    <<"rm">>,
    <<"farm", " ", "x">>,
    <<"ls">>,
    <<"git", " ", "push", " ", " ", "--force">>,
    <<"git", " ", "checkout", " ", ".">>,
    <<"echo", " ", "x", " ", ">", "/dev/null">> }
\* dispatches explored in one run
MaxDispatches == 3
NoDispatch == [name |-> "none", command |-> <<>>]
NoResult == [error |-> "none", exit_code |-> 0]
\* what a handler returns
HandlerResult == [error |-> "none", exit_code |-> 0]
CancelledResult == [error |-> "Command cancelled by user", exit_code |-> -1]
\* call_tool raised instead of returning
RaisedResult == [error |-> "raised", exit_code |-> 0]

\* str.lower() on the words used
Lower(w) == IF w = "RM" THEN "rm" ELSE IF w = "/QUIT" THEN "/quit" ELSE w

RECURSIVE CollapseWhitespace(_)
\* re.sub(r"\s+", " ", command)
CollapseWhitespace(cmd) ==
    IF cmd = <<>> THEN <<>>
    ELSE IF Head(cmd) \in Whitespace
         THEN IF Len(cmd) > 1 /\ cmd[2] \in Whitespace
              THEN CollapseWhitespace(Tail(cmd))
              ELSE <<" ">> \o CollapseWhitespace(Tail(cmd))
         ELSE <<Head(cmd)>> \o CollapseWhitespace(Tail(cmd))

\* str.strip() of a collapsed command
Strip(cmd) ==
    LET a == IF cmd # <<>> /\ Head(cmd) = " " THEN Tail(cmd) ELSE cmd
    IN  IF a # <<>> /\ a[Len(a)] = " " THEN SubSeq(a, 1, Len(a) - 1) ELSE a

\* _normalize_command
NormalizeCommand(cmd) ==
    LET c == Strip(CollapseWhitespace(cmd))
    IN  [i \in 1..Len(c) |-> Lower(c[i])]

\* the words of pat, separated by whitespace, occur in cmd (\bw1\s+w2...)
MatchesWords(cmd, pat) ==
    \E i \in 1..Len(cmd) :
        /\ i + 2 * (Len(pat) - 1) <= Len(cmd)
        /\ \A k \in 1..Len(pat) : cmd[i + 2 * (k - 1)] = pat[k]
        /\ \A k \in 1..(Len(pat) - 1) : cmd[i + 2 * k - 1] = " "
\* a word followed by whitespace (\bw\s+)
MatchesWordSpace(cmd, w) ==
    \E i \in 1..(Len(cmd) - 1) : cmd[i] = w /\ cmd[i + 1] = " "
\* a redirection into /dev/ (>\s*/dev/)
MatchesDevRedirect(cmd) ==
    \E i \in 1..Len(cmd) :
        /\ cmd[i] = ">"
        /\ \/ i + 1 <= Len(cmd) /\ cmd[i + 1] = "/dev/null"
           \/ i + 2 <= Len(cmd) /\ cmd[i + 1] = " " /\ cmd[i + 2] = "/dev/null"

\* _is_destructive_command: any of _DESTRUCTIVE_PATTERNS matches
IsDestructiveCommand(command) ==
    LET cmd == NormalizeCommand(command)
    IN  \/ MatchesWordSpace(cmd, "rm")
        \/ MatchesWords(cmd, <<"rmdir">>)
        \/ MatchesWords(cmd, <<"git", "push", "-f">>)
        \/ MatchesWords(cmd, <<"git", "push", "--force">>)
        \/ MatchesWords(cmd, <<"git", "reset", "--hard">>)
        \/ MatchesWords(cmd, <<"git", "clean">>)
        \/ MatchesWords(cmd, <<"git", "checkout", ".x">>)
        \/ MatchesWords(cmd, <<"drop", "table">>)
        \/ MatchesWords(cmd, <<"drop", "database">>)
        \/ MatchesWordSpace(cmd, "truncate")
        \/ MatchesDevRedirect(cmd)
        \/ MatchesWords(cmd, <<"chmod", "777">>)
        \/ MatchesWords(cmd, <<"kill", "-9">>)

\* a registry that never asks
NeverConfirm(callback, name, command) == FALSE

\* call_tool: the dispatch goes through the confirmation callback
NeedsConfirm(callback, name, command) ==
    callback /\ name = "bash" /\ IsDestructiveCommand(command)

InitTr ==
    /\ tr_callback = FALSE
    /\ tr_pc = "idle"
    /\ tr_call = NoDispatch
    /\ tr_confirm = "none"
    /\ tr_handled = FALSE
    /\ tr_result = NoResult
    /\ tr_dispatches = 0

\* set_confirm_callback
SetConfirmCallback ==
    /\ UNCHANGED nonTrVars
    /\ tr_pc = "idle"
    /\ ~tr_callback
    /\ tr_callback' = TRUE
    /\ tr_call' = NoDispatch
    /\ tr_confirm' = "none"
    /\ tr_handled' = FALSE
    /\ tr_result' = NoResult
    /\ UNCHANGED <<tr_pc, tr_dispatches>>

\* call_tool(name, {"command": command}) up to the callback or the handler
TrCallTool(name, command) ==
    /\ UNCHANGED nonTrVars
    /\ tr_pc = "idle"
    /\ tr_dispatches < MaxDispatches
    /\ tr_dispatches' = tr_dispatches + 1
    /\ tr_call' = [name |-> name, command |-> command]
    /\ tr_confirm' = "none"
    /\ IF name \notin RegisteredTools
       THEN /\ tr_result' = RaisedResult
            /\ tr_handled' = FALSE
            /\ UNCHANGED tr_pc
       ELSE IF NeedsConfirm(tr_callback, name, command)
       THEN /\ tr_pc' = "confirming"
            /\ tr_handled' = FALSE
            /\ tr_result' = NoResult
       ELSE /\ tr_handled' = TRUE
            /\ tr_result' = HandlerResult
            /\ UNCHANGED tr_pc
    /\ UNCHANGED tr_callback

\* the confirmation callback returns (or raises), and call_tool goes on
ConfirmReturns(answer) ==
    /\ UNCHANGED nonTrVars
    /\ tr_pc = "confirming"
    /\ tr_pc' = "idle"
    /\ tr_confirm' = answer
    /\ tr_handled' = (answer = "true")
    /\ tr_result' = IF answer = "true" THEN HandlerResult
                     ELSE IF answer = "false" THEN CancelledResult
                     ELSE RaisedResult
    /\ UNCHANGED <<tr_callback, tr_call, tr_dispatches>>

NextTr ==
    \/ SetConfirmCallback
    \/ \E name \in CallNames, command \in Commands : TrCallTool(name, command)
    \/ \E answer \in {"true", "false", "raised"} : ConfirmReturns(answer)

\* ========================================================================
\* Destructive confirmation (app.py _confirm_destructive over the
\* ApprovalManager; routers/approvals.py over tool_approval.py)
\* ========================================================================
\* config.shared_databases, by name; an entry without a name is skipped
SharedDatabases == <<"team", "">>
Global(db) == [scope |-> "global", db |-> db]
\* a callback that publishes only to the shared databases
PublishChannelsSharedOnly ==
    [i \in 1..Len(SelectSeq(SharedDatabases, LAMBDA n : n # "")) |->
        Global(SelectSeq(SharedDatabases, LAMBDA n : n # "")[i])]
\* the channels the callback publishes on, in order
PublishChannels ==
    <<Global("personal")>> \o
    [i \in 1..Len(SelectSeq(SharedDatabases, LAMBDA n : n # "")) |->
        Global(SelectSeq(SharedDatabases, LAMBDA n : n # "")[i])]
\* tool_approval._PENDING: only confirm_destructive_via_event_bus adds to it,
\* and the application never calls that function
ToolApprovalPending == {}
\* answers of the endpoint explored in one run
MaxResponses == 2

\* tool_approval.resolve_approval(id, approved): the lookup and its return
ResolveApproval(id) == id \in ToolApprovalPending

InitCb ==
    /\ cb_pc = "idle"
    /\ cb_id = 0
    /\ cb_published = <<>>
    /\ resp_last = [id |-> 0, approved |-> FALSE, body |-> {}]
    /\ resp_count = 0

\* _confirm_destructive: approval_manager.request(message, owner="local")
CbRequest ==
    /\ UNCHANGED nonCbVars
    /\ cb_pc = "idle"
    /\ appr_next \in ApprIds
    /\ appr_pending' = appr_pending \cup {appr_next}
    /\ appr_owner' = [appr_owner EXCEPT ![appr_next] = "local"]
    /\ appr_created' = [appr_created EXCEPT ![appr_next] = appr_now]
    /\ appr_fut' = [appr_fut EXCEPT ![appr_next] = "pending"]
    /\ appr_next' = appr_next + 1
    /\ appr_last' = NoCall
    /\ cb_id' = appr_next
    /\ cb_published' = <<>>
    /\ cb_pc' = "publishing"
    /\ UNCHANGED <<appr_now, wait_pc, wait_deadline, wait_ret, appr_true>>
    /\ UNCHANGED <<resp_last, resp_count>>

\* _confirm_destructive: the next event_bus.publish(channel, event)
CbPublish ==
    /\ UNCHANGED nonCbVars
    /\ cb_pc = "publishing"
    /\ Len(cb_published) < Len(PublishChannels)
    /\ cb_published' = Append(cb_published,
                              [channel |-> PublishChannels[Len(cb_published) + 1],
                               approval_id |-> cb_id])
    /\ appr_last' = NoCall
    /\ UNCHANGED <<appr_pending, appr_owner, appr_created, appr_fut, appr_next, appr_now,
                   wait_pc, wait_deadline, wait_ret, appr_true>>
    /\ UNCHANGED <<cb_pc, cb_id, resp_last, resp_count>>

\* _confirm_destructive: approval_manager.wait(approval_id) up to its park
CbWait ==
    /\ UNCHANGED nonCbVars
    /\ cb_pc = "publishing"
    /\ Len(cb_published) = Len(PublishChannels)
    /\ cb_pc' = "waiting"
    /\ IF cb_id \in appr_pending
       THEN /\ wait_pc' = [wait_pc EXCEPT ![cb_id] = "parked"]
            /\ wait_deadline' = [wait_deadline EXCEPT ![cb_id] = appr_now + WaitTimeout]
            /\ wait_ret' = [wait_ret EXCEPT ![cb_id] = "none"]
       ELSE /\ wait_pc' = [wait_pc EXCEPT ![cb_id] = "returned"]
            /\ wait_ret' = [wait_ret EXCEPT ![cb_id] = "false"]
            /\ UNCHANGED wait_deadline
    /\ appr_last' = NoCall
    /\ UNCHANGED <<appr_pending, appr_owner, appr_created, appr_fut, appr_next, appr_now,
                   appr_true>>
    /\ UNCHANGED <<cb_id, cb_published, resp_last, resp_count>>

\* the callback has returned (or raised); the registry may call it again
CbReturn ==
    /\ UNCHANGED nonCbVars
    /\ cb_pc = "waiting"
    /\ wait_pc[cb_id] = "returned"
    /\ cb_pc' = "idle"
    /\ appr_last' = NoCall
    /\ UNCHANGED <<appr_pending, appr_owner, appr_created, appr_fut, appr_next, appr_now,
                   wait_pc, wait_deadline, wait_ret, appr_true>>
    /\ UNCHANGED <<cb_id, cb_published, resp_last, resp_count>>

\* POST /approvals/respond {approval_id: id, approved}
RespondApproval(id, approved) ==
    /\ UNCHANGED nonCbVars
    /\ resp_count < MaxResponses
    /\ resp_count' = resp_count + 1
    /\ resp_last' = [id |-> id, approved |-> approved,
                     body |-> IF ResolveApproval(id)
                              THEN {<<"ok", TRUE>>}
                              ELSE {<<"ok", TRUE>>, <<"already_resolved", TRUE>>}]
    /\ appr_last' = NoCall
    /\ UNCHANGED <<appr_pending, appr_owner, appr_created, appr_fut, appr_next, appr_now,
                   wait_pc, wait_deadline, wait_ret, appr_true>>
    /\ UNCHANGED <<cb_pc, cb_id, cb_published>>

\* The callback with its manager and the endpoint. The cleanup task is left
\* out: it expires entries 600 s after their request, and the callback's wait
\* has ended 300 s after it.
NextConfirm ==
    \/ CbRequest
    \/ CbPublish
    \/ CbWait
    \/ CbReturn
    \/ \E id \in ApprIds, approved \in BOOLEAN : RespondApproval(id, approved)
    \/ \E o \in Owners : Request(o)
    \/ \E id \in ApprIds, v \in BOOLEAN, o \in Owners \cup {"local"} : Resolve(id, v, o)
    \/ Tick
    \/ \E id \in ApprIds : WaitWake(id)
    \/ \E id \in ApprIds : WaitTimesOut(id)
    \/ \E id \in ApprIds : WaitCancel(id)
    \/ \E id \in ApprIds : WaitFinally(id)

\* ========================================================================
\* Event-stream provider URL check (mcp_manager.py _validate_sse_url)
\* ========================================================================
\* an address: its version and its groups (octets of IPv4, 16-bit groups of
\* IPv6); v = 0 is "no address"
Addr4(a, b, c, d) == [v |-> 4, g |-> <<a, b, c, d>>]
Addr6(a, b) == [v |-> 6, g |-> <<a, 0, 0, 0, 0, 0, 0, b>>]
NoAddr == [v |-> 0, g |-> <<>>]
\* _BLOCKED_NETWORKS: [v, g, p] is the network g/p (64512 = fc00, 65152 = fe80)
BlockedNetworks ==
    {[v |-> 4, g |-> <<127, 0, 0, 0>>, p |-> 8],
     [v |-> 4, g |-> <<10, 0, 0, 0>>, p |-> 8],
     [v |-> 4, g |-> <<172, 16, 0, 0>>, p |-> 12],
     [v |-> 4, g |-> <<192, 168, 0, 0>>, p |-> 16],
     [v |-> 4, g |-> <<169, 254, 0, 0>>, p |-> 16],
     [v |-> 6, g |-> <<0, 0, 0, 0, 0, 0, 0, 1>>, p |-> 128],
     [v |-> 6, g |-> <<64512, 0, 0, 0, 0, 0, 0, 0>>, p |-> 7],
     [v |-> 6, g |-> <<65152, 0, 0, 0, 0, 0, 0, 0>>, p |-> 10]}

\* "addr in network": same version and the first p bits agree
InNetwork(a, n) ==
    /\ a.v = n.v
    /\ LET w == IF n.v = 4 THEN 8 ELSE 16
           k == n.p \div w
           r == n.p % w
       IN  /\ \A i \in 1..k : a.g[i] = n.g[i]
           /\ r = 0 \/ a.g[k + 1] \div 2^(w - r) = n.g[k + 1] \div 2^(w - r)

\* hosts of a configured URL: parsed.hostname, and what ip_address() makes of
\* it (NoAddr when it raises ValueError)
SseHosts ==
    {[name |-> "localhost", ip |-> NoAddr],
     [name |-> "metadata.google.internal", ip |-> NoAddr],
     [name |-> "mcp.example.com", ip |-> NoAddr],
     [name |-> "127.0.0.1", ip |-> Addr4(127, 0, 0, 1)],
     [name |-> "172.31.255.1", ip |-> Addr4(172, 31, 255, 1)],
     [name |-> "172.32.0.1", ip |-> Addr4(172, 32, 0, 1)],
     [name |-> "169.254.169.254", ip |-> Addr4(169, 254, 169, 254)],
     [name |-> "100.100.100.200", ip |-> Addr4(100, 100, 100, 200)],
     [name |-> "93.184.216.34", ip |-> Addr4(93, 184, 216, 34)],
     [name |-> "::1", ip |-> Addr6(0, 1)],
     [name |-> "fd00::1", ip |-> Addr6(64768, 1)],
     [name |-> "febf::1", ip |-> Addr6(65215, 1)],
     [name |-> "2001:db8::1", ip |-> Addr6(8193, 1)]}
\* what getaddrinfo answers for a name: addresses, or gaierror
DnsAnswers ==
    {[ok |-> FALSE, addrs |-> {}]} \cup
    {[ok |-> TRUE, addrs |-> as] :
        as \in (SUBSET {Addr4(93, 184, 216, 34), Addr4(192, 168, 1, 10),
                        Addr4(100, 64, 0, 1), Addr6(64768, 1)}) \ {{}}}

\* _validate_sse_url returns (TRUE) or raises ValueError (FALSE)
ValidateSseUrl(scheme, host, dns) ==
    /\ scheme \in {"http", "https"}
    /\ host.name \notin {"localhost", "metadata.google.internal"}
    /\ IF host.ip # NoAddr
       THEN \A n \in BlockedNetworks : ~InNetwork(host.ip, n)
       ELSE /\ dns.ok
            /\ \A a \in dns.addrs : \A n \in BlockedNetworks : ~InNetwork(a, n)

InitSse ==
    sse_last = [scheme |-> "none", host |-> [name |-> "", ip |-> NoAddr],
                dns |-> [ok |-> FALSE, addrs |-> {}], opened |-> FALSE,
                status |-> "unset"]

\* _connect_one for a provider with transport "sse": the URL check, then
\* sse_client(url) is entered and the session initialised (ok or not)
SseConnect(scheme, host, dns, ok) ==
    /\ UNCHANGED nonSseVars
    /\ sse_last' = [scheme |-> scheme, host |-> host, dns |-> dns,
                    opened |-> ValidateSseUrl(scheme, host, dns),
                    status |-> IF ValidateSseUrl(scheme, host, dns) /\ ok
                               THEN "connected" ELSE "error"]

NextSse ==
    \E scheme \in {"http", "https", "file"}, host \in SseHosts, dns \in DnsAnswers, ok \in BOOLEAN :
        SseConnect(scheme, host, dns, ok)

\* ========================================================================
\* Cancel-signal registry (chat.py _cancel_events, chat(), stop_generation)
\* ========================================================================
\* chat requests explored, and the conversations they are made for
RegTurns == {"t1", "t2", "t3"}
RegConvs == {"c1", "c2"}

\* _cancel_events.get(c, set())
RegGet(c) == IF c \in DOMAIN cancel_events THEN cancel_events[c] ELSE {}

InitReg ==
    /\ cancel_events = <<>>
    /\ turn_pc = [t \in RegTurns |-> "idle"]
    /\ turn_conv = [t \in RegTurns |-> "c1"]
    /\ turn_signal = [t \in RegTurns |-> FALSE]

\* chat(): the request passed validation; cancel_event = asyncio.Event() is
\* added to _cancel_events[conversation_id] (a defaultdict makes the key)
TurnAccept(t, c) ==
    /\ UNCHANGED nonRegVars
    /\ turn_pc[t] = "idle"
    /\ turn_pc' = [turn_pc EXCEPT ![t] = "accepted"]
    /\ turn_conv' = [turn_conv EXCEPT ![t] = c]
    /\ cancel_events' = [k \in DOMAIN cancel_events \cup {c} |->
                            IF k = c THEN RegGet(c) \cup {t} ELSE cancel_events[k]]
    /\ UNCHANGED turn_signal

\* chat() after the registration: the AI service, the history and the tool
\* list are fetched; either the response is returned or an exception leaves
\* chat()
TurnPrepare(t, ok) ==
    /\ UNCHANGED nonRegVars
    /\ turn_pc[t] = "accepted"
    /\ turn_pc' = [turn_pc EXCEPT ![t] = IF ok THEN "response" ELSE "failed"]
    /\ UNCHANGED <<cancel_events, turn_conv, turn_signal>>

\* the response starts to iterate event_generator()
TurnStart(t) ==
    /\ UNCHANGED nonRegVars
    /\ turn_pc[t] = "response"
    /\ turn_pc' = [turn_pc EXCEPT ![t] = "running"]
    /\ UNCHANGED <<cancel_events, turn_conv, turn_signal>>

\* the response is dropped before event_generator() was iterated: closing a
\* generator that never started runs none of its body
TurnAbandon(t) ==
    /\ UNCHANGED nonRegVars
    /\ turn_pc[t] = "response"
    /\ turn_pc' = [turn_pc EXCEPT ![t] = "abandoned"]
    /\ UNCHANGED <<cancel_events, turn_conv, turn_signal>>

\* event_generator() is left (done, error, exception, closed by the
\* consumer): its finally block discards the signal and pops an empty key
TurnEnd(t) ==
    /\ UNCHANGED nonRegVars
    /\ turn_pc[t] = "running"
    /\ turn_pc' = [turn_pc EXCEPT ![t] = "ended"]
    /\ LET c == turn_conv[t]
           rest == RegGet(c) \ {t}
       IN  cancel_events' =
               IF rest = {}
               THEN [k \in DOMAIN cancel_events \ {c} |-> cancel_events[k]]
               ELSE [cancel_events EXCEPT ![c] = rest]
    /\ UNCHANGED <<turn_conv, turn_signal>>

\* stop_generation(c) for an existing conversation: every signal registered
\* under c is set
StopGenerationOf(c) ==
    /\ UNCHANGED nonRegVars
    /\ turn_signal' = [t \in RegTurns |-> turn_signal[t] \/ t \in RegGet(c)]
    /\ UNCHANGED <<cancel_events, turn_pc, turn_conv>>

NextReg ==
    \/ \E t \in RegTurns, c \in RegConvs : TurnAccept(t, c)
    \/ \E t \in RegTurns, ok \in BOOLEAN : TurnPrepare(t, ok)
    \/ \E t \in RegTurns : TurnStart(t)
    \/ \E t \in RegTurns : TurnAbandon(t)
    \/ \E t \in RegTurns : TurnEnd(t)
    \/ \E c \in RegConvs : StopGenerationOf(c)

\* ========================================================================
\* Terminal session (repl.py _drain_input_to_msg_queue, _run_repl)
\* ========================================================================
\* texts typed in one session
MaxTyped == 4
\* a text is the list of its whitespace-separated words; these words start
\* with "/"
SlashWords == {"/help", "/quit", "/QUIT", "/exit"}
\* what _collect_input may put on the queue (stripped, not empty, and here
\* each typed once): plain text, text with a file reference and an inner "/",
\* a command, and exit commands
QueuedTexts == {<<"hi">>, <<"@f", "a/b">>, <<"/help">>, <<"/QUIT", "now">>, <<"/exit">>}
EXIT_COMMANDS == {"/quit", "/exit"}

\* _expand_file_references: an @path of an existing file becomes its content
ExpandFileReferences(text) ==
    [i \in 1..Len(text) |-> IF text[i] = "@f" THEN "<file f>" ELSE text[i]]
UserMsg(content) == [role |-> "user", content |-> content]

\* one pass of the body of "while not input_queue.empty()" over the state
\* st of the drain: the queues, the rows, the warnings, the two flags and
\* whether the loop was left by break
DrainOneForwardsAll(st) ==
    LET q_expanded == ExpandFileReferences(Head(st.iq))
    IN  [st EXCEPT !.iq = Tail(st.iq),
                   !.rows = Append(@, UserMsg(q_expanded)),
                   !.mq = Append(@, UserMsg(q_expanded))]
DrainOne(st) ==
    LET queued_text == Head(st.iq)
        taken == [st EXCEPT !.iq = Tail(st.iq)]
        cmd == Lower(Head(queued_text))
        q_expanded == ExpandFileReferences(queued_text)
    IN  IF Head(queued_text) \in SlashWords
        THEN IF cmd \in EXIT_COMMANDS
             THEN [taken EXCEPT !.cancel = TRUE, !.exit = TRUE, !.stop = TRUE]
             ELSE [taken EXCEPT !.warned = Append(@, cmd)]
        ELSE [taken EXCEPT !.rows = Append(@, UserMsg(q_expanded)),
                           !.mq = Append(@, UserMsg(q_expanded))]

RECURSIVE Drain(_)
Drain(st) == IF st.iq = <<>> \/ st.stop THEN st ELSE Drain(DrainOne(st))

\* _drain_input_to_msg_queue called with the session's input queue, warning
\* callback and exit flag, and the given follow-up queue, rows and signal
DrainInput(iq, mq, rows, cancel) ==
    Drain([iq |-> iq, mq |-> mq, rows |-> rows, warned |-> repl_warned,
           cancel |-> cancel, exit |-> exit_flag, stop |-> FALSE])

InitRepl ==
    /\ input_queue = <<>>
    /\ msg_queue = <<>>
    /\ repl_rows = <<>>
    /\ repl_warned = <<>>
    /\ repl_cancel = FALSE
    /\ exit_flag = FALSE
    /\ engine_messages = <<>>
    /\ repl_pc = "idle"
    /\ repl_typed = {}

\* _collect_input: a typed text is put on the input queue (the queue's
\* maxsize of 10 is above MaxTyped and never reached)
CollectInput(text) ==
    /\ UNCHANGED nonReplVars
    /\ ~exit_flag
    /\ text \notin repl_typed
    /\ Cardinality(repl_typed) < MaxTyped
    /\ repl_typed' = repl_typed \cup {text}
    /\ input_queue' = Append(input_queue, text)
    /\ UNCHANGED <<msg_queue, repl_rows, repl_warned, repl_cancel, exit_flag,
                   engine_messages, repl_pc>>

\* _agent_runner between turns: the next text is taken; an exit command ends
\* the session, another command is handled without a turn, anything else is
\* stored and appended as the user message of a new turn with a new follow-up
\* queue and cancel signal, the input queue is drained once and
\* run_agent_loop is entered
RunnerTake ==
    /\ UNCHANGED nonReplVars
    /\ repl_pc = "idle"
    /\ ~exit_flag
    /\ input_queue # <<>>
    /\ LET user_input == Head(input_queue)
           expanded == UserMsg(ExpandFileReferences(user_input))
           d == DrainInput(Tail(input_queue), <<>>, Append(repl_rows, expanded), FALSE)
       IN  IF Head(user_input) \in SlashWords
           THEN /\ input_queue' = Tail(input_queue)
                /\ exit_flag' = (Lower(Head(user_input)) \in EXIT_COMMANDS)
                /\ repl_pc' = IF exit_flag' THEN "exited" ELSE "idle"
                /\ UNCHANGED <<msg_queue, repl_rows, repl_warned, repl_cancel, engine_messages>>
           ELSE /\ engine_messages' = Append(engine_messages, expanded)
                /\ input_queue' = d.iq
                /\ msg_queue' = d.mq
                /\ repl_rows' = d.rows
                /\ repl_warned' = d.warned
                /\ repl_cancel' = d.cancel
                /\ exit_flag' = d.exit
                /\ repl_pc' = "stream"
    /\ UNCHANGED repl_typed

\* an event of the turn that leaves the message list alone (thinking, token,
\* tool events): the loop body drains the input queue
EngineEvent ==
    /\ UNCHANGED nonReplVars
    /\ repl_pc = "stream"
    /\ LET d == DrainInput(input_queue, msg_queue, repl_rows, repl_cancel)
       IN  /\ input_queue' = d.iq
           /\ msg_queue' = d.mq
           /\ repl_rows' = d.rows
           /\ repl_warned' = d.warned
           /\ repl_cancel' = d.cancel
           /\ exit_flag' = d.exit
    /\ UNCHANGED <<engine_messages, repl_pc, repl_typed>>

\* the stream of an iteration stops normally: the engine appends the
\* assistant message to the message list and emits assistant-message, on
\* which the loop body drains the input queue and then stores the assistant
\* message; the engine then splices the queued follow-ups into the message
\* list (queued-message) and goes on, or emits done when there are none
EngineFinish ==
    /\ UNCHANGED nonReplVars
    /\ repl_pc = "stream"
    /\ ~repl_cancel
    /\ LET assistant == [role |-> "assistant", content |-> <<"reply", Len(engine_messages)>>]
           d == DrainInput(input_queue, msg_queue, repl_rows, repl_cancel)
       IN  /\ input_queue' = d.iq
           /\ repl_rows' = Append(d.rows, assistant)
           /\ repl_warned' = d.warned
           /\ repl_cancel' = d.cancel
           /\ exit_flag' = d.exit
           /\ IF d.mq # <<>> /\ ~d.cancel
              THEN /\ engine_messages' = Append(engine_messages, assistant) \o d.mq
                   /\ msg_queue' = <<>>
                   /\ repl_pc' = "stream"
              ELSE /\ engine_messages' = Append(engine_messages, assistant)
                   /\ msg_queue' = d.mq
                   /\ repl_pc' = IF d.exit THEN "exited" ELSE "idle"
    /\ UNCHANGED repl_typed

\* the cancel signal is set: the engine aborts the request and emits done,
\* on which the loop body drains the input queue once more
EngineCancelled ==
    /\ UNCHANGED nonReplVars
    /\ repl_pc = "stream"
    /\ repl_cancel
    /\ LET d == DrainInput(input_queue, msg_queue, repl_rows, repl_cancel)
       IN  /\ input_queue' = d.iq
           /\ msg_queue' = d.mq
           /\ repl_rows' = d.rows
           /\ repl_warned' = d.warned
           /\ repl_cancel' = d.cancel
           /\ exit_flag' = d.exit
           /\ repl_pc' = IF d.exit THEN "exited" ELSE "idle"
    /\ UNCHANGED <<engine_messages, repl_typed>>

NextRepl ==
    \/ \E text \in QueuedTexts : CollectInput(text)
    \/ RunnerTake
    \/ EngineEvent
    \/ EngineFinish
    \/ EngineCancelled

\* ========================================================================
\* Specifications
\* ========================================================================
Init == InitMcp /\ InitAppr /\ InitStore /\ InitDel /\ InitBus /\ InitChat /\ InitTr /\ InitSub /\ InitCb /\ InitSse /\ InitReg /\ InitRepl

SpecMcp == Init /\ [][NextMcp]_vars

SpecMcpCall == Init /\ [][NextMcpCall]_vars

SpecApproval == Init /\ [][NextAppr]_vars

\* the cleanup task loops for ever and the event loop resumes a waiter whose
\* future is done
SpecApprovalLive ==
    /\ Init /\ [][NextAppr]_vars
    /\ WF_vars(Sweep)
    /\ \A id \in ApprIds : WF_vars(WaitWake(id)) /\ WF_vars(WaitFinally(id))

SpecStore == Init /\ [][NextStore]_vars

SpecMessages == Init /\ [][NextMessages]_vars

SpecDelete == Init /\ [][NextDel]_vars

SpecBus == Init /\ [][NextBus]_vars

SpecChat == Init /\ [][NextChat]_vars

SpecSubmit == Init /\ [][NextSub]_vars

SpecConfirm == Init /\ [][NextConfirm]_vars

SpecSse == Init /\ [][NextSse]_vars
SpecCancel == Init /\ [][NextReg]_vars
SpecRepl == Init /\ [][NextRepl]_vars

SpecTools == Init /\ [][NextTr]_vars

\* ========================================================================
\* Claims about McpManager (checked under SpecMcp and SpecMcpCall)
\* ========================================================================
\* the last call was a _connect_one for s that entered the try body
AttemptedBody(s) ==
    /\ mcp_last.op = "connect_one"
    /\ mcp_last.server = s
    /\ mcp_sdk # "none"
    /\ Transport[s] \in {"stdio", "sse"}
    /\ ~(Transport[s] = "sse" /\ mcp_sdk = "core")

\* C1: after a _connect_one that fails at any step (validation, transport
\* open, session initialize, tool listing) the provider's status is error,
\* it has no entry in the session map nor in the exit-stack map, and the
\* exit stack of the attempt is closed.
C1_FailedConnectLeavesNoResource ==
    \A s \in Servers :
        (AttemptedBody(s) /\ env_outcome[s] \in FailSteps) =>
            /\ server_status[s] = "error"
            /\ sessions[s] = 0
            /\ ~HasKey(exit_stacks, s)
            /\ stacks[Len(stacks)].closed

\* the status a provider's own outcome calls for
ExpectedStatus(s) ==
    IF /\ env_outcome[s] = "ok"
       /\ Transport[s] \in {"stdio", "sse"}
       /\ ~(Transport[s] = "sse" /\ mcp_sdk = "core")
    THEN "connected" ELSE "error"

\* startup is running, or has just returned
StartupFresh ==
    \/ startup_state = "running"
    \/ startup_state = "done" /\ mcp_last.by = "startup"

\* C5: startup goes through every configured provider whatever happens to
\* the others: it is never cut short by a provider's failure, it returns
\* only after the last provider's attempt, and every provider attempted so
\* far is connected or error according to its own outcome only.
C5_StartupConnectsEveryProvider ==
    /\ startup_state # "aborted"
    /\ startup_state = "done" => startup_idx = Len(ConfigOrder)
    /\ StartupFresh =>
          \A i \in 1..startup_idx :
              server_status[ConfigOrder[i]] = ExpectedStatus(ConfigOrder[i])

\* C5 witness: startup returned with an earlier provider failed and a later
\* one connected
C5_Witness ==
    /\ startup_state = "done"
    /\ mcp_last.by = "startup"
    /\ env_outcome["a"] \in FailSteps
    /\ server_status["a"] = "error"
    /\ server_status["b"] = "connected"

\* the tool list provider s has in the catalogue (_server_tools.get(s, []))
ToolsOf(st, s) ==
    IF HasKey(st, s) THEN st[CHOOSE i \in 1..Len(st) : st[i].name = s].tools ELSE <<>>
\* the providers whose catalogue entry advertises tool t
Advertisers(t) == {s \in Servers : t \in Range(ToolsOf(server_tools, s))}

\* C21: after disconnect_server(name) the provider's status is disconnected,
\* it has no session and no exit stack and the stack it held is closed, it
\* has no catalogue entry and no tool name maps to it; the session, status
\* and catalogue entry of every other provider are what they were before.
C21_DisconnectReleasesProvider ==
    [][\A name \in Servers :
          mcp_last' = [op |-> "disconnect", server |-> name, by |-> "disconnect_server"] =>
             /\ server_status'[name] = "disconnected"
             /\ sessions'[name] = 0
             /\ ~HasKey(exit_stacks', name)
             /\ \A i \in 1..Len(exit_stacks) :
                   exit_stacks[i].name = name => stacks'[exit_stacks[i].stack].closed
             /\ ~HasKey(server_tools', name)
             /\ \A t \in ToolNames : tool_to_server'[t] # name
             /\ \A s \in Servers \ {name} :
                   /\ sessions'[s] = sessions[s]
                   /\ server_status'[s] = server_status[s]
                   /\ HasKey(server_tools', s) = HasKey(server_tools, s)
                   /\ ToolsOf(server_tools', s) = ToolsOf(server_tools, s)]_vars

\* C21 witness: a provider that had connected was disconnected while another
\* provider is connected and serves a tool
C21_Witness ==
    /\ mcp_last.op = "disconnect"
    /\ env_outcome[mcp_last.server] = "ok"
    /\ server_status[mcp_last.server] = "disconnected"
    /\ \E s \in Servers \ {mcp_last.server} :
          /\ server_status[s] = "connected"
          /\ \E t \in ToolNames : tool_to_server[t] = s

\* C22: connect_server(name) on a provider whose status is connected leaves
\* it connected with the same session, and leaves the catalogue and the
\* tool-name map as they were.
C22_ConnectIdempotentOnConnected ==
    [][\A name \in Servers :
          (/\ server_status[name] = "connected"
           /\ sessions[name] # 0
           /\ mcp_last' = [op |-> "connect_one", server |-> name, by |-> "connect_server"]) =>
             /\ server_status'[name] = "connected"
             /\ sessions'[name] = sessions[name]
             /\ server_tools' = server_tools
             /\ tool_to_server' = tool_to_server]_vars

\* C23: the tool-name map has an entry exactly for the tool names some
\* provider's catalogue entry advertises, and it maps each to the provider
\* that registered last among those advertising it (sessions are numbered in
\* the order the providers registered).
C23_ToolMapMatchesCatalogue ==
    \A t \in ToolNames :
        IF Advertisers(t) = {} THEN tool_to_server[t] = "none"
        ELSE /\ tool_to_server[t] \in Advertisers(t)
             /\ \A s \in Advertisers(t) :
                   /\ sessions[s] # 0
                   /\ sessions[s] <= sessions[tool_to_server[t]]

\* C23 witness: two providers advertise a tool and the first configured one,
\* which registered last, has it
C23_Witness ==
    /\ {"a", "b"} \subseteq Advertisers("t1")
    /\ sessions["a"] > sessions["b"]
    /\ tool_to_server["t1"] = "a"

\* C24: a provider whose status is error has no catalogue entry, no tool
\* name maps to it and no call reaches it; a call for a tool no provider
\* advertises fails as not found without reaching a session; a call for a
\* tool a connected provider advertises is routed, and with arguments that
\* pass validation it reaches an open session.
C24_ErrorProviderHasNoTools ==
    /\ \A s \in Servers :
          server_status[s] = "error" =>
             /\ ~HasKey(server_tools, s)
             /\ \A t \in ToolNames : tool_to_server[t] # s
             /\ mcp_call.server # s
             /\ mcp_call.session = 0 \/ mcp_call.session # sessions[s]
    /\ (mcp_call.tool # "none" /\ Advertisers(mcp_call.tool) = {}) =>
          /\ mcp_call.outcome = "not_found"
          /\ mcp_call.session = 0
    /\ (/\ mcp_call.tool # "none"
        /\ \E s \in Advertisers(mcp_call.tool) : server_status[s] = "connected") =>
          /\ mcp_call.outcome # "not_found"
          /\ mcp_call.outcome # "invalid_args" =>
                /\ mcp_call.session # 0
                /\ ~stacks[mcp_call.session].closed

\* C24 witness: a provider failed at list_tools and is in error, another
\* one is connected with tools, and a call for a tool nobody advertises was
\* answered not found
C24_Witness ==
    /\ mcp_call.outcome = "not_found"
    /\ \E s \in Servers : server_status[s] = "error" /\ env_outcome[s] = "list_tools"
    /\ \E s \in Servers : server_status[s] = "connected" /\ ToolsOf(server_tools, s) # <<>>

\* C25: after a forwarded call failed in transport, the provider it was
\* forwarded to has status error, has no catalogue entry, and no tool name
\* maps to it.
C25_TransportFailureMarksError ==
    mcp_call.outcome = "transport_error" =>
        /\ server_status[mcp_call.server] = "error"
        /\ ~HasKey(server_tools, mcp_call.server)
        /\ \A t \in ToolNames : tool_to_server[t] # mcp_call.server

\* C26: shutdown closes the exit stacks in reverse order of acquisition: of
\* two stacks it closes, the one acquired later (the larger number) is
\* closed first.
C26_ShutdownReverseOrder ==
    mcp_down =>
        \A i, j \in 1..Len(shutdown_log) :
            i < j => shutdown_log[i].stack > shutdown_log[j].stack

\* C27: shutdown calls aclose on every exit stack the manager holds, also
\* after an aclose that raised, and leaves the exit-stack map, the session
\* map, the catalogue and the tool-name map empty.
C27_ShutdownClosesEverything ==
    [][(~mcp_down /\ mcp_down') =>
          /\ {shutdown_log'[i].stack : i \in 1..Len(shutdown_log')}
                = {exit_stacks[i].stack : i \in 1..Len(exit_stacks)}
          /\ \A i \in 1..Len(exit_stacks) : stacks'[exit_stacks[i].stack].closed
          /\ exit_stacks' = <<>>
          /\ \A s \in Servers : sessions'[s] = 0
          /\ server_tools' = <<>>
          /\ \A t \in ToolNames : tool_to_server'[t] = "none"]_vars

\* C27 witness: shutdown has run, the first aclose raised and a later stack
\* was closed all the same
C27_Witness ==
    /\ mcp_down
    /\ Len(shutdown_log) >= 2
    /\ shutdown_log[1].raised
    /\ stacks[shutdown_log[2].stack].closed

\* some str value of the argument dict contains a shell metacharacter
HasMetaString(args) ==
    \E i \in 1..Len(args) :
        /\ args[i].value.type = "str"
        /\ \E j \in 1..Len(args[i].value.chars) : args[i].value.chars[j] \in ShellMeta

\* C29: a call whose argument dict has a str value with a shell
\* metacharacter reaches no session, and fails validation when the tool is
\* routed; a call for a routed tool whose str values are clean, whatever its
\* other values, is forwarded to the provider's session.
C29_MetacharArgsNotForwarded ==
    mcp_call.tool # "none" =>
        /\ HasMetaString(mcp_call.args) =>
              /\ mcp_call.session = 0
              /\ mcp_call.outcome \in {"not_found", "invalid_args"}
              /\ mcp_call.server # "none" => mcp_call.outcome = "invalid_args"
        /\ (~HasMetaString(mcp_call.args) /\ mcp_call.server # "none") =>
              /\ mcp_call.outcome \in Replies
              /\ mcp_call.session = sessions[mcp_call.server]
              /\ mcp_call.session # 0

\* C29 witness: a call whose second argument has a metacharacter was
\* refused at validation
C29_Witness ==
    /\ mcp_call.outcome = "invalid_args"
    /\ Len(mcp_call.args) = 2
    /\ tool_to_server[mcp_call.tool] # "none"

\* ========================================================================
\* Claims about ApprovalManager (checked under SpecApproval)
\* ========================================================================
\* C2: for every approval id at most one resolve call returns true, a resolve
\* that returns after one that took effect returns false, and once the slot
\* holds a result it keeps that result for ever.
C2_ResolveAtMostOnce ==
    /\ [](\A id \in ApprIds : appr_true[id] <= 1)
    /\ [][\A id \in ApprIds :
            /\ appr_fut[id] \in {"true", "false"} => appr_fut'[id] = appr_fut[id]
            /\ (appr_true[id] = 1 /\ appr_last'.op = "resolve" /\ appr_last'.id = id)
                   => appr_last'.ret = "false"]_vars

\* C2 witness: a resolve returned false for an id an earlier resolve fulfilled
C2_Witness ==
    \E id \in ApprIds :
        /\ appr_true[id] = 1
        /\ appr_last = Called("resolve", id, appr_owner[id], "false")
        /\ id \in appr_pending

\* C10: a resolve whose owner differs from the recorded one returns false and
\* changes neither the pending map, nor any result slot, nor any wait.
C10_WrongOwnerNoEffect ==
    [][\A id \in ApprIds :
          (/\ appr_last'.op = "resolve"
           /\ appr_last'.id = id
           /\ id \in appr_pending
           /\ appr_owner[id] # appr_last'.owner)
          => /\ appr_last'.ret = "false"
             /\ UNCHANGED <<appr_pending, appr_owner, appr_created, appr_fut,
                            wait_pc, wait_ret, wait_deadline>>]_vars

\* C10 witness: a wrong-owner resolve has just been refused for an unresolved
\* pending id whose wait is parked
C10_Witness ==
    \E id \in ApprIds :
        /\ appr_last.op = "resolve"
        /\ appr_last.id = id
        /\ appr_last.owner # appr_owner[id]
        /\ appr_last.ret = "false"
        /\ id \in appr_pending
        /\ appr_fut[id] = "pending"
        /\ wait_pc[id] = "parked"

\* C11: a wait on a pending id during which no resolve took effect gives
\* false (unless its task was cancelled, which raises), and once it has
\* returned the id is not in the pending map.
C11_WaitTimeoutReturnsFalse ==
    \A id \in ApprIds :
        /\ (wait_pc[id] \in {"finally", "returned"} /\ appr_true[id] = 0
                /\ wait_ret[id] # "cancelled")
              => wait_ret[id] = "false"
        /\ (wait_pc[id] = "returned" /\ appr_fut[id] = "cancelled")
              => id \notin appr_pending

\* C11 witness: a wait has timed out on an unresolved, unswept id and returned
C11_Witness ==
    \E id \in ApprIds :
        /\ wait_pc[id] = "returned"
        /\ appr_fut[id] = "cancelled"
        /\ wait_ret[id] = "false"
        /\ appr_now >= wait_deadline[id]

\* C12: after wait(id) has returned, whatever ended it, id is absent from the
\* pending map and stays absent, every later resolve of id returns false, and
\* a wait on an id that is not pending returns false at once, creating no entry.
C12_WaitRemovesEntry ==
    /\ [](\A id \in ApprIds : wait_pc[id] = "returned" => id \notin appr_pending)
    /\ [][\A id \in ApprIds :
            /\ (wait_pc[id] = "returned" /\ appr_last'.op = "resolve" /\ appr_last'.id = id)
                  => appr_last'.ret = "false"
            /\ (id \notin appr_pending /\ wait_pc[id] \in {"idle", "returned"}
                   /\ wait_pc'[id] # wait_pc[id])
                  => /\ wait_pc'[id] = "returned"
                     /\ wait_ret'[id] = "false"
                     /\ appr_pending' = appr_pending]_vars

\* C12 witness: the owner's resolve was refused after a resolved wait returned
C12_Witness ==
    \E id \in ApprIds :
        /\ wait_pc[id] = "returned"
        /\ wait_ret[id] = "true"
        /\ appr_last.op = "resolve"
        /\ appr_last.id = id
        /\ appr_last.ret = "false"

Expired(id) == id \in appr_pending /\ appr_now - appr_created[id] > ExpireAfter

\* C13: with the cleanup task running, every pending approval older than the
\* configured age is eventually out of the pending map with no wait left
\* parked on it, and a sweep fulfils the unresolved ones it removes with false.
C13_SweepExpiresPending ==
    /\ \A id \in ApprIds :
          Expired(id) ~> (id \notin appr_pending /\ wait_pc[id] \in {"idle", "returned"})
    /\ [][\A id \in ApprIds :
            (Expired(id) /\ appr_fut[id] = "pending" /\ wait_pc'[id] = wait_pc[id]
                /\ id \notin appr_pending')
              => appr_fut'[id] = "false"]_vars

\* C13 witness: a wait parked on an approval has returned false after the
\* sweep fulfilled it, before its own timeout was due
C13_Witness ==
    \E id \in ApprIds :
        /\ wait_pc[id] = "returned"
        /\ wait_ret[id] = "false"
        /\ appr_fut[id] = "false"
        /\ appr_true[id] = 0
        /\ appr_now < wait_deadline[id]

\* C14: when a resolve of id took effect, the wait of the requester returns
\* the resolved value, whether it was called before or after the resolve and
\* whatever the sweep did in between; and a wait returns true only for an
\* approval resolved with true.
C14_WaitReturnsResolvedValue ==
    /\ [][\A id \in ApprIds :
            (wait_pc[id] \in {"idle", "finally"} /\ wait_pc'[id] = "returned"
                /\ appr_true[id] = 1)
              => wait_ret'[id] = appr_fut[id]]_vars
    /\ [](\A id \in ApprIds :
            wait_ret[id] = "true" => (appr_fut[id] = "true" /\ appr_true[id] = 1))

\* ========================================================================
\* Claims about the store (checked under SpecStore, SpecMessages, SpecDelete)
\* ========================================================================
MessagesOf(c) == {r \in db_messages : r.conv = c}

\* C3: in every reachable state the positions of the messages of every
\* conversation are exactly 0..n-1, without gap or duplicate, also when the
\* callers of create_message are different processes on one database file.
C3_PositionsDense ==
    \A c \in Convs :
        /\ {r.position : r \in MessagesOf(c)} = 0..(Cardinality(MessagesOf(c)) - 1)
        /\ \A r1, r2 \in MessagesOf(c) : r1.position = r2.position => r1 = r2

\* C9: a tool-call record is created pending with null output, a record in
\* success or error is never changed by a later completion, and a record's
\* output is null if and only if its status is pending.
C9_ToolCallCompletesOnce ==
    /\ [](\A k \in ToolCallIds :
            tool_calls[k].status # "absent" =>
                (LoadOutput(tool_calls[k].output_json) = "None"
                     <=> tool_calls[k].status = "pending"))
    /\ [][\A k \in ToolCallIds :
            /\ (tool_calls[k].status = "absent" /\ tool_calls'[k].status # "absent")
                  => tool_calls'[k] = [status |-> "pending", output_json |-> "NULL"]
            /\ tool_calls[k].status \in {"success", "error"}
                  => tool_calls'[k] = tool_calls[k]]_vars

\* C30: for every conversation c for which delete_conversation returned
\* True, there is no message row of c, every tool-call row and attachment
\* row belongs to a message that exists (so none belongs to one of c), and
\* no attachment file lies in the directory of c.
C30_DeleteLeavesNothing ==
    \A c \in deleted :
        /\ c \notin db_convs
        /\ \A r \in db_messages : r.conv # c
        /\ \A k \in ToolCallIds :
              tool_calls[k].status # "absent" => tc_message[k] \in MessageIds(db_messages)
        /\ \A a \in att_rows : a.message \in MessageIds(db_messages)
        /\ \A f \in att_files : f.conv # c

\* the row breaks the FOREIGN KEY on conversation_id or the CHECK on role
ViolatesIntegrity(row) == row.conv \notin db_convs \/ row.role \notin AllowedRoles

\* C32: when a create_message whose row names a conversation that does not
\* exist, or a role outside the allowed set, runs its INSERT, the call fails
\* with an integrity error and the step changes nothing else: no message
\* row, no conversation row, no updated-at, and the write lock and the
\* create_message calls of the other processes are where they were.
C32_IntegrityFailureChangesNothing ==
    [][\A p \in Procs :
          (cm_pc[p] = "selected" /\ ViolatesIntegrity(cm_args[p]) /\ cm_pc'[p] # cm_pc[p])
            => /\ cm_result'[p] \in {"integrity", "locked"}
               /\ cm_pc'[p] = "idle"
               /\ db_messages' = db_messages
               /\ db_convs' = db_convs
               /\ db_updated' = db_updated
               /\ db_writer' = db_writer
               /\ \A q \in Procs \ {p} :
                     cm_pc'[q] = cm_pc[q] /\ cm_args'[q] = cm_args[q]]_vars

\* a create_message failed on integrity while another process's
\* create_message held the rows it had inserted, uncommitted; a message
\* committed earlier had advanced updated-at
C32_Witness ==
    \E p, q \in Procs :
        /\ p # q
        /\ cm_result[p] = "integrity"
        /\ cm_pc[q] = "selected"
        /\ db_updated["c1"] # 0

\* ========================================================================
\* Claims about the event bus (checked under SpecBus)
\* ========================================================================
IsLocal(ev) == ev.process_id = SelfPid
IsRemote(ev) == ev.process_id = OtherPid
\* the events of seq are in the order of their numbers, all after number last
Ascending(seq, last) ==
    /\ \A i \in 1..Len(seq) : seq[i].n > last
    /\ \A i, j \in 1..Len(seq) : i < j => seq[i].n < seq[j].n

\* C4: for every queue, the local events waiting on it are exactly the events
\* this process published while the queue was subscribed and that its holder
\* has not taken yet, in publish order, and all of them were published after
\* the last local event the holder took.
C4_LocalEventsInPublishOrder ==
    \A q \in QueueIds :
        /\ SelectSeq(bus_queue[q], IsLocal) = bus_expected[q]
        /\ Ascending(bus_expected[q], bus_got[q][SelfPid])

\* a holder has taken two local events and one of another process from a queue
\* on which a third local event waits
C4_Witness ==
    \E q \in QueueIds :
        /\ bus_got[q][SelfPid] >= 2
        /\ bus_got[q][OtherPid] >= 1
        /\ bus_expected[q] # <<>>

\* a poll cycle that found new rows
PollStep == bus_polling /\ bus_polling' /\ last_seen_ids' # last_seen_ids
\* the rows of database d the poller has not read yet
Unseen(d) == SelectSeq(change_log[d], LAMBDA r : r.id > last_seen_ids[d])
\* the events of the unread rows of d that other processes wrote on a channel
\* queue q is subscribed to, in id order
Replay(q, d) ==
    LET rows == SelectSeq(Unseen(d), LAMBDA r : r.process_id # SelfPid
                                               /\ q \in bus_subscribers[r.channel])
    IN  [i \in 1..Len(rows) |-> rows[i].event]
\* the events a step has added at the end of queue q
Added(q) ==
    IF Len(bus_queue'[q]) > Len(bus_queue[q])
    THEN {bus_queue'[q][i] : i \in (Len(bus_queue[q]) + 1)..Len(bus_queue'[q])}
    ELSE {}

\* C15: a poll cycle never puts an event of this process on a queue, so every
\* queue holds each local event at most once; and every unread row of another
\* process is put on every queue subscribed to the row's channel.
C15_OwnRowsSkipped ==
    /\ [](\A q \in QueueIds :
            Ascending(SelectSeq(bus_queue[q], IsLocal), bus_got[q][SelfPid]))
    /\ [][PollStep =>
            \A q \in QueueIds :
               /\ \A ev \in Added(q) : IsRemote(ev)
               /\ \A d \in Dbs : \A i \in 1..Len(Replay(q, d)) :
                     Replay(q, d)[i] \in Added(q)]_vars

\* C15 witness: the poller has read past a row of its own process whose event
\* waits on a queue, and an event of another process waits on a queue too
C15_Witness ==
    /\ \E d \in Dbs : \E i \in 1..Len(change_log[d]) :
          /\ change_log[d][i].process_id = SelfPid
          /\ change_log[d][i].id <= last_seen_ids[d]
          /\ \E q \in QueueIds : \E k \in 1..Len(bus_queue[q]) :
                bus_queue[q][k] = change_log[d][i].event
    /\ \E q \in QueueIds : \E k \in 1..Len(bus_queue[q]) : IsRemote(bus_queue[q][k])

\* C16: in every database the rows are in id order, which is their commit
\* order, and on every queue the events of other processes wait in that order,
\* each once, all of them later than the last such event its holder took.
C16_RemoteEventsInIdOrder ==
    /\ \A d \in Dbs : \A i, j \in 1..Len(change_log[d]) :
          i < j => /\ change_log[d][i].id < change_log[d][j].id
                   /\ change_log[d][i].event.n < change_log[d][j].event.n
    /\ \A q \in QueueIds :
          Ascending(SelectSeq(bus_queue[q], IsRemote), bus_got[q][OtherPid])

\* C16 witness: a holder took an event of another process and a later one,
\* delivered by a later poll cycle, waits on its queue
C16_Witness ==
    \E q \in QueueIds :
        /\ bus_got[q][OtherPid] >= 1
        /\ \E k \in 1..Len(bus_queue[q]) : IsRemote(bus_queue[q][k])

ClaimedCapacity == MaxEvents - 1

\* C19: every queue is bounded: its length never exceeds a fixed capacity,
\* however many events are published while its holder takes none.
C19_QueueBounded ==
    \A q \in QueueIds : Len(bus_queue[q]) <= ClaimedCapacity

\* a publish of this process
LocalPublishStep ==
    /\ ev_next' = ev_next + 1
    /\ \A d \in Dbs : change_log'[d] # change_log[d] =>
          change_log'[d][Len(change_log'[d])].process_id = SelfPid

EventIds(kind) == {chat_events[i].id : i \in {j \in 1..Len(chat_events) : chat_events[j].event = kind}}
ToolMessageIds == {ai_messages[i].tool_call_id : i \in {j \in 1..Len(ai_messages) : ai_messages[j].role = "tool"}}

\* C6: once the stream of an iteration was closed because the cancel signal
\* was set, no message is stored any more (the partial text of the cancelled
\* iteration is not persisted), and the turn ends with done.
C6_CancelDropsPartialText ==
    /\ [][chat_cut => db_messages' = db_messages]_vars
    /\ [](chat_cut /\ chat_pc = "ended"
            => chat_events[Len(chat_events)] = Ev("done", ""))

\* C7: the completion requests of one turn never exceed the configured
\* maximum of tool iterations.
C7_IterationsBounded == chat_requests <= MaxToolIterations

C35_FailedDispatchContinues ==
    /\ [][chat_pc = "dispatch" /\ chat_pc' = "ended"
            => tool_calls[tool_calls_pending[chat_tc]].status # "absent"]_vars
    /\ [][chat_pc = "dispatch" /\ chat_pc' = "resume"
            /\ tool_calls'[tool_calls_pending[chat_tc]].status = "error"
            => /\ tool_calls'[tool_calls_pending[chat_tc]].output_json = "error"
               /\ chat_events' = Append(chat_events,
                      [event |-> "tool_call_end", id |-> tool_calls_pending[chat_tc],
                       status |-> "error"])]_vars
    /\ [][chat_pc = "resume" /\ ai_messages' # ai_messages
            => /\ ai_messages' = Append(ai_messages,
                      [role |-> "tool", tool_call_id |-> tool_calls_pending[chat_tc],
                       content |-> tool_calls[tool_calls_pending[chat_tc]].output_json])
               /\ chat_pc' = "dispatch"
               /\ chat_tc' = chat_tc + 1]_vars
    /\ [][chat_pc = "resume" => chat_pc' \in {"resume", "dispatch"}]_vars

\* the first call of an iteration failed, the second succeeded, and the next
\* completion request was opened
C35_Witness ==
    /\ tool_calls["k1"].status = "error"
    /\ tool_calls["k2"].status = "success"
    /\ ai_messages[Len(ai_messages)] =
           [role |-> "tool", tool_call_id |-> "k2", content |-> "o1"]
    /\ \E i \in 1..Len(ai_messages) :
           ai_messages[i] = [role |-> "tool", tool_call_id |-> "k1", content |-> "error"]
    /\ chat_requests = 2
    /\ chat_pc = "streaming"

\* C36: the event stream of a turn is finite and ends with exactly one
\* terminal event: at most one done or error is ever emitted, nothing is
\* emitted after it, the turn has ended exactly when it was emitted (so an
\* error is never followed by done), and the turn opens no more completion
\* requests than the configured maximum of iterations, which is what makes
\* its stream finite whatever the completion service announces.
C36_OneTerminalEvent ==
    LET terminal == {i \in 1..Len(chat_events) :
                        chat_events[i].event \in {"done", "error"}}
    IN  /\ Cardinality(terminal) <= 1
        /\ terminal \subseteq {Len(chat_events)}
        /\ (chat_pc = "ended") <=> (terminal # {})
        /\ chat_requests <= MaxToolIterations

\* ========================================================================
\* Claims about the tool registry (checked under SpecTools)
\* ========================================================================
\* C28: with a confirmation callback set, the handler of a bash dispatch
\* whose command is classified destructive is invoked only if the callback
\* answered true for that dispatch; when it answered false, call_tool
\* returned the cancellation result and the handler was not invoked; for a
\* command that is not destructive and for other tools the callback is not
\* called and the handler is invoked.
C28_DestructiveNeedsConfirmation ==
    /\ (/\ tr_callback
        /\ tr_call.name = "bash"
        /\ IsDestructiveCommand(tr_call.command)
        /\ tr_handled) => tr_confirm = "true"
    /\ tr_confirm = "false" => (tr_result = CancelledResult /\ ~tr_handled)
    /\ (/\ tr_call.name \in RegisteredTools
        /\ tr_call.name # "bash" \/ ~IsDestructiveCommand(tr_call.command)) =>
          (tr_confirm = "none" /\ tr_handled /\ tr_pc = "idle")

\* C28 witness: a destructive command written with upper case and a tab was
\* refused by the callback
C28_Witness ==
    /\ tr_call.name = "bash"
    /\ tr_call.command # <<>>
    /\ tr_call.command[1] = "RM"
    /\ tr_confirm = "false"
    /\ tr_result = CancelledResult

\* ========================================================================
\* Claims about chat submissions (checked under SpecSubmit)
\* ========================================================================
\* C31: whenever a submission has been rejected, the store holds neither the
\* user message it created, nor a row or a file of an attachment it saved.
C31_RejectionLeavesNothing ==
    sub_pc = "rejected" =>
        /\ sub_msg \notin MessageIds(db_messages)
        /\ \A a \in att_rows : a.id \notin sub_made
        /\ \A f \in att_files : f.id \notin sub_made

\* ========================================================================
\* Claims about the destructive confirmation (checked under SpecConfirm)
\* ========================================================================
\* C33: an answer of POST /approvals/respond for an id that is pending and
\* unresolved in the ApprovalManager carries ok=true and resolved=true and
\* fulfils the slot with the answer; an answer for an id that is pending but
\* already resolved carries ok=true and resolved=false.
C33_RespondResolvesPending ==
    [][\A id \in ApprIds :
          (resp_count' = resp_count + 1 /\ resp_last'.id = id /\ id \in appr_pending)
            => IF appr_fut[id] = "pending"
               THEN /\ {<<"ok", TRUE>>, <<"resolved", TRUE>>} \subseteq resp_last'.body
                    /\ appr_fut'[id] = BoolStr(resp_last'.approved)
               ELSE {<<"ok", TRUE>>, <<"resolved", FALSE>>} \subseteq resp_last'.body]_vars

\* the names of the shared databases that have one, in configuration order
NamedShared == SelectSeq(SharedDatabases, LAMBDA n : n # "")
\* the callback is between its request and its return
CbRunning == cb_pc # "idle"
\* the wait of the callback has not ended
CbOpen == CbRunning /\ wait_pc[cb_id] \in {"idle", "parked"}

\* C37: while the callback runs, (a) its id is pending, owned by "local",
\* from before the first publication until its wait ends; (b) its
\* publications carry that id and go to global:personal first, then to
\* global:<name> of the named shared databases in order; (c) the wait starts
\* only after all of them; (d) a resolve of the id by "local" made after a
\* publication, while the wait has not ended and nothing has resolved the id,
\* returns true; (e) the wait returns the resolved value when there was an
\* effective resolve, and otherwise false (or ends by cancellation).
C37_ConfirmCallbackOrder ==
    /\ [](CbOpen => (cb_id \in appr_pending /\ appr_owner[cb_id] = "local"))
    /\ [](CbRunning =>
            /\ Len(cb_published) <= 1 + Len(NamedShared)
            /\ \A i \in 1..Len(cb_published) :
                  /\ cb_published[i].approval_id = cb_id
                  /\ cb_published[i].channel =
                        IF i = 1 THEN Global("personal") ELSE Global(NamedShared[i - 1]))
    /\ [](CbRunning /\ wait_pc[cb_id] # "idle" => Len(cb_published) = 1 + Len(NamedShared))
    /\ [][(/\ appr_last'.op = "resolve"
           /\ appr_last'.id = cb_id
           /\ appr_last'.owner = "local"
           /\ CbOpen
           /\ cb_published # <<>>
           /\ appr_fut[cb_id] = "pending")
            => (appr_last'.ret = "true" /\ appr_fut'[cb_id] \in {"true", "false"})]_vars
    /\ [](CbRunning /\ wait_pc[cb_id] = "returned" =>
            wait_ret[cb_id] = IF appr_true[cb_id] > 0 THEN appr_fut[cb_id]
                              ELSE IF appr_fut[cb_id] = "cancelled" /\ wait_ret[cb_id] = "cancelled"
                                   THEN "cancelled" ELSE "false")

\* the callback returned true: a resolve(true) by "local" reached it, and it
\* had published on two channels
C37_Witness ==
    /\ CbRunning
    /\ wait_pc[cb_id] = "returned"
    /\ wait_ret[cb_id] = "true"
    /\ Len(cb_published) = 2

\* ========================================================================
\* Claims about the event-stream URL check (checked under SpecSse)
\* ========================================================================
\* loopback, RFC 1918 private, link-local, unique-local and carrier-grade NAT
\* (100.64.0.0/10) addresses
InClaimedBlockedSet(a) ==
    \/ a.v = 4 /\ a.g[1] = 127
    \/ a.v = 4 /\ a.g[1] = 10
    \/ a.v = 4 /\ a.g[1] = 172 /\ a.g[2] \in 16..31
    \/ a.v = 4 /\ a.g[1] = 192 /\ a.g[2] = 168
    \/ a.v = 4 /\ a.g[1] = 169 /\ a.g[2] = 254
    \/ a.v = 4 /\ a.g[1] = 100 /\ a.g[2] \in 64..127
    \/ a.v = 6 /\ a.g = <<0, 0, 0, 0, 0, 0, 0, 1>>
    \/ a.v = 6 /\ a.g[1] \in 64512..65023
    \/ a.v = 6 /\ a.g[1] \in 65152..65215

\* C34: after an attempt whose URL has a scheme other than http/https, a
\* host name that is an internal alias, a literal address in the blocked
\* set, or a name that resolves to some address in the blocked set, no
\* transport was opened and the provider is in status error.
C34_BlockedUrlNeverOpened ==
    (\/ sse_last.scheme \notin {"none", "http", "https"}
     \/ sse_last.host.name \in {"localhost", "metadata.google.internal"}
     \/ InClaimedBlockedSet(sse_last.host.ip)
     \/ /\ sse_last.host.ip = NoAddr
        /\ \E a \in sse_last.dns.addrs : InClaimedBlockedSet(a))
      => (~sse_last.opened /\ sse_last.status = "error")

\* ========================================================================
\* Claims about the cancel-signal registry (checked under SpecCancel)
\* ========================================================================
InFlight == {"accepted", "response", "running"}

\* C40: the registry holds exactly the cancel signals of the chat turns in
\* flight, each under the conversation of its turn (so the signal of a turn
\* that ended in any way, failed before its response or was never consumed
\* is gone), no key maps to an empty set, and a step that sets signals sets
\* those of the in-flight turns of one conversation and no others.
C40_RegistryHoldsInFlightTurns ==
    /\ [](\A c \in DOMAIN cancel_events : cancel_events[c] # {})
    /\ [](\A t \in RegTurns, c \in RegConvs :
             t \in RegGet(c) <=> (turn_pc[t] \in InFlight /\ turn_conv[t] = c))
    /\ [][turn_signal' # turn_signal =>
             \E c \in RegConvs : \A t \in RegTurns :
                 turn_signal'[t] <=>
                     (turn_signal[t] \/ (turn_pc[t] \in InFlight /\ turn_conv[t] = c))]_vars

\* ========================================================================
\* Claims about the terminal session (checked under SpecRepl)
\* ========================================================================
\* C38: a drain of the input queue during a turn looks at the queued texts
\* up to the first exit command: those not starting with "/" are appended, in
\* the order they were entered, to the follow-up queue and to the stored
\* messages as user messages (with their file references expanded); those
\* starting with "/" are passed to the warning callback and reach neither;
\* at an exit command the cancel signal and the exit flag are set and the
\* texts after it stay in the input queue; without one the queue is emptied
\* and the flags are left alone.
C38_DrainForwardsTextsOnly ==
    [][repl_pc = "stream" /\ repl_pc' = "stream" /\ engine_messages' = engine_messages
         /\ Len(input_queue') < Len(input_queue)
       => LET n == Len(input_queue)
              exits == {i \in 1..n : Lower(Head(input_queue[i])) \in {"/quit", "/exit"}}
              stopAt == IF exits = {} THEN n + 1
                        ELSE CHOOSE i \in exits : \A j \in exits : i <= j
              seen == SubSeq(input_queue, 1, stopAt - 1)
              texts == SelectSeq(seen, LAMBDA t : Head(t) \notin SlashWords)
              cmds == SelectSeq(seen, LAMBDA t : Head(t) \in SlashWords)
              forwarded == [i \in 1..Len(texts) |->
                               [role |-> "user", content |-> ExpandFileReferences(texts[i])]]
          IN  /\ msg_queue' = msg_queue \o forwarded
              /\ repl_rows' = repl_rows \o forwarded
              /\ repl_warned' = repl_warned \o [i \in 1..Len(cmds) |-> Head(cmds[i])]
              /\ IF exits = {}
                 THEN input_queue' = <<>> /\ UNCHANGED <<repl_cancel, exit_flag>>
                 ELSE /\ repl_cancel' /\ exit_flag'
                      /\ input_queue' = SubSeq(input_queue, stopAt + 1, n)]_vars

\* a drain forwarded a text, warned about a command and stopped at an exit
\* command with a text left behind it
C38_Witness ==
    /\ repl_pc = "stream"
    /\ repl_warned = <<"/help">>
    /\ msg_queue = <<[role |-> "user", content |-> <<"<file f>", "a/b">>]>>
    /\ repl_cancel /\ exit_flag
    /\ engine_messages = <<[role |-> "user", content |-> <<"hi">>]>>

\* C39: the stored rows of the conversation are in the order in which their
\* messages stand in the engine's message list: of two messages of the list
\* that are both stored, the earlier one has the lower position.
C39_StoredOrderIsEngineOrder ==
    \A i, j \in 1..Len(engine_messages) :
        i < j => \A p, q \in 1..Len(repl_rows) :
                    (repl_rows[p] = engine_messages[i] /\ repl_rows[q] = engine_messages[j])
                        => p < q
====
